---- MODULE Spec2Model ----
(***************************************************************************)
(* Authentication / session lifecycle of the Torvix backend                *)
(* (app/api/routes/auth.py, app/core/security.py, app/models).             *)
(*                                                                         *)
(* Request handlers run concurrently, one database transaction each.  A    *)
(* handler is split into steps exactly where the database lets another     *)
(* request interleave: its reads (session.get), its flush (the INSERT and  *)
(* UPDATE statements sent inside the open transaction) and its commit.     *)
(* Rows written by a flush stay private to the request (req[r]) until the  *)
(* commit copies them into db, the committed state every read sees.        *)
(*                                                                         *)
(* Time is counted in minutes.                                             *)
(***************************************************************************)
EXTENDS Integers, Sequences, FiniteSets, TLC

\* ------------------------------------------------------------------ bounds

\* concurrent request handlers
NumRequests == 2
\* auth_sessions rows (committed or flushed)
MaxSessions == 3
\* clock advances
MaxTicks == 2
\* ids the statistics_days sequence gives out
MaxDayIds == 3
\* ids the meal_entries sequence gives out
MaxMealIds == 3

\* --------------------------------------------------------------- constants

ACCESS_TOKEN_MINUTES == 60
REFRESH_TOKEN_DAYS == 30
MinutesPerDay == 1440
\* None: revoked_at of a session that was not revoked, a request without user
Null == -1

Requests == 1..NumRequests

AccessLifetime == ACCESS_TOKEN_MINUTES
RefreshLifetime == REFRESH_TOKEN_DAYS * MinutesPerDay

\* ------------------------------------------------------------ claim values
\* A JWT claim is a JSON value: a string, a number, or not there at all.

StrClaim(n) == [kind |-> "str", val |-> n]
NumClaim(n) == [kind |-> "int", val |-> n]
Absent == [kind |-> "absent", val |-> 0]
\* a string that is no decimal number
Word == [kind |-> "word", val |-> 0]

\* int(x) raises ValueError / TypeError for anything but a number or a
\* decimal string
IntRaises(c) == c.kind \notin {"str", "int"}
IntOf(c) == c.val
\* payload[key] raises KeyError
KeyMissing(c) == c.kind = "absent"
\* `not sub`
Falsy(c) == c.kind = "absent" \/ (c.kind = "int" /\ c.val = 0)

\* ------------------------------------------------------------------ tokens
\* form: "empty" (the empty string), "jwt" (three-part token)
\* sig:  the signature verifies under settings.JWT_SECRET

Token(type, sub, sid, iat, exp) ==
    [form |-> "jwt", sig |-> TRUE, type |-> type, sub |-> sub, sid |-> sid,
     iat |-> iat, exp |-> exp]

EmptyToken ==
    [form |-> "empty", sig |-> FALSE, type |-> "", sub |-> Absent,
     sid |-> Absent, iat |-> 0, exp |-> 0]

Tampered(t) == [t EXCEPT !.sig = FALSE]

\* _create_token: sub is str(user_id); extra claims are merged as given
create_token(user_id, token_type, expires_delta, extra_sid, t) ==
    Token(token_type, StrClaim(user_id), extra_sid, t, t + expires_delta)

create_access_token(user_id, session_id, t) ==
    create_token(user_id, "access", AccessLifetime, NumClaim(session_id), t)

create_refresh_token(user_id, session_id, t) ==
    create_token(user_id, "refresh", RefreshLifetime, StrClaim(session_id), t)

\* jose.jwt.decode: signature, then exp (ExpiredSignatureError iff exp < now)
JwtDecodes(token, t) ==
    /\ token.form = "jwt"
    /\ token.sig
    /\ ~(token.exp < t)

\* _decode_token without the comparison of payload["type"]
decode_token_untyped(token, expected_type, t) ==
    IF token.form = "empty" THEN FALSE
    ELSE IF ~JwtDecodes(token, t) THEN FALSE
    ELSE IF Falsy(token.sub) THEN FALSE
    ELSE TRUE

\* _decode_token returns the payload (TRUE) or raises ValueError (FALSE)
decode_token(token, expected_type, t) ==
    IF token.form = "empty" THEN FALSE
    ELSE IF ~JwtDecodes(token, t) THEN FALSE
    ELSE IF token.type # expected_type THEN FALSE
    ELSE IF Falsy(token.sub) THEN FALSE
    ELSE TRUE

decode_access_token(token, t) == decode_token(token, "access", t)

decode_refresh_token(token, t) == decode_token(token, "refresh", t)

\* the try block of the three handlers: decode, int(sub), int(sid);
\* TRUE iff nothing is raised
ClaimsParse(token) ==
    /\ ~IntRaises(token.sub)
    /\ ~KeyMissing(token.sid)
    /\ ~IntRaises(token.sid)

\* HMAC-SHA256 hex digest: one digest per token, never the empty string
EmptyHash == <<>>
hash_refresh_token(token) == <<"hmac", token>>

verify_refresh_token(token, token_hash) ==
    IF token.form = "empty" \/ token_hash = EmptyHash THEN FALSE
    ELSE hash_refresh_token(token) = token_hash

\* --------------------------------------------------------------- passwords

\* passlib pbkdf2_sha256: a digest of the password, never the empty string
hash_password(password) == <<"pbkdf2", password>>

verify_password(password, password_hash) ==
    IF password = "" \/ password_hash = <<>> THEN FALSE
    ELSE hash_password(password) = password_hash

\* ------------------------------------------------------------------ emails
\* An email is a sequence of characters.

LowerChar(c) ==
    CASE c = "A" -> "a" [] c = "B" -> "b" [] c = "C" -> "c" [] OTHER -> c

Lower(s) == [i \in DOMAIN s |-> LowerChar(s[i])]

\* str.strip(): without the leading and trailing blanks
Strip(s) ==
    LET solid == {i \in DOMAIN s : s[i] # " "}
    IN  IF solid = {} THEN <<>>
        ELSE LET first == CHOOSE i \in solid : \A j \in solid : i <= j
                 last == CHOOSE i \in solid : \A j \in solid : j <= i
             IN  SubSeq(s, first, last)

NormalizeEmail(email) == Lower(Strip(email))

\* ------------------------------------------------------------------- state

VARIABLES
    \* users table: id -> row
    users,
    \* auth_sessions table, committed rows: id -> row
    db,
    \* the clock (datetime.utcnow)
    now,
    \* each request handler's position and its open transaction
    req,
    \* the last response sent to a client
    resp,
    \* every token ever returned to a client
    issued,
    \* history: session id -> the refresh token whose rotation created it
    parent,
    \* history: sessions a committed Refresh or Logout has revoked
    everRevoked,
    \* history: refresh tokens a Logout has accepted
    loggedOut,
    \* statistics_days table, committed rows: id -> row
    days,
    \* meal_entries table, committed rows: id -> row
    meals,
    \* the last id the statistics_days / meal_entries sequence has given out
    day_seq,
    meal_seq,
    \* each request handler's position in /auth/register or a /stats route
    tx,
    \* the ledger of a second run of the service, which receives the
    \* requests of user 1 and no others: days, meals, day_seq, meal_seq
    shadow

\* the meal ledger, which no auth route touches
ledger == <<days, meals, day_seq, meal_seq, shadow>>

vars == <<users, db, now, req, resp, issued, parent, everRevoked, loggedOut,
          ledger, tx>>

Idle ==
    [pc |-> "idle", token |-> EmptyToken, user_id |-> Null,
     session_id |-> Null, revoked_at |-> Null, new_id |-> Null,
     expires_at |-> Null]

\* what the client is told: the route, the HTTP status and, for /auth/me,
\* the user
\* a handler of /auth/register, /stats, /api/openai or /api/open-food-facts
\* that holds nothing
TxIdle ==
    [pc |-> "idle", user_id |-> Null, email |-> <<>>, password_hash |-> <<>>,
     day |-> Null, dish_name |-> <<>>, day_id |-> Null, time |-> Null,
     max_output_tokens |-> Null, temperature |-> FALSE, retries_left |-> 0,
     calls |-> <<>>, barcode |-> "", response_bytes |-> <<>>,
     meal_id |-> Null, meal_ids |-> {}, has_remaining |-> FALSE,
     max_output_token_retries |-> 0]

Response(op, status, user_id) ==
    [op |-> op, status |-> status, user_id |-> user_id]

\* an HTTPException: the status and the detail the client reads
HttpError(op, status, detail) ==
    [op |-> op, status |-> status, user_id |-> Null, detail |-> detail]

\* _unauthorized(detail): 401 with a WWW-Authenticate header
unauthorized(op, detail) == HttpError(op, 401, detail)

AuthSession(user_id, refresh_token_hash, expires_at) ==
    [user_id |-> user_id, refresh_token_hash |-> refresh_token_hash,
     expires_at |-> expires_at, revoked_at |-> Null]

\* the row register_user would store without strip() and lower()
User_as_typed(email, password) ==
    [email |-> email, password_hash |-> hash_password(password)]

User(email, password) ==
    [email |-> NormalizeEmail(email), password_hash |-> hash_password(password)]

\* _refresh_expires_at with the lifetime of an access token
refresh_expires_at_short(t) == t + AccessLifetime

refresh_expires_at(t) == t + RefreshLifetime

\* is_session_active without its first test: revoked_at is not looked at
is_session_active_unrevoked(auth_session, t) ==
    auth_session.expires_at > t

\* is_session_active with >= for >: active at the instant of expiry
is_session_active_inclusive(auth_session, t) ==
    IF auth_session.revoked_at # Null THEN FALSE
    ELSE auth_session.expires_at >= t

is_session_active(auth_session, t) ==
    IF auth_session.revoked_at # Null THEN FALSE
    ELSE auth_session.expires_at > t

\* _get_user_by_email comparing with the email as typed, trimmed only
get_user_by_email_exact(email) ==
    LET found == {u \in DOMAIN users : Lower(users[u].email) = Strip(email)}
    IN  IF found = {} THEN Null
        ELSE CHOOSE u \in found : \A v \in found : u <= v

\* select(User).where(func.lower(User.email) == normalized_email).first():
\* the id of the user, or Null
get_user_by_email(email) ==
    LET found == {u \in DOMAIN users : Lower(users[u].email) = NormalizeEmail(email)}
    IN  IF found = {} THEN Null
        ELSE CHOOSE u \in found : \A v \in found : u <= v

\* ------------------------------------------------------------- transactions

\* A flushed INSERT holds its key in the unique index on refresh_token_hash
\* and a flushed UPDATE holds its row: a second writer waits for the commit
\* or the rollback.
Flushed(r) == req[r].pc \in {"login_flushed", "refresh_flushed"}

MayFlush(r) == \A o \in Requests \ {r} : ~Flushed(o)

RowLocked(r, session_id) ==
    \E o \in Requests \ {r} :
        req[o].pc = "refresh_flushed" /\ req[o].session_id = session_id

\* Handlers are interchangeable: a request that arrives is served by the
\* first free one.
Busy(r) == req[r].pc # "idle" \/ tx[r].pc # "idle"

Free(r) ==
    /\ ~Busy(r)
    /\ \A o \in Requests : o < r => Busy(o)

\* the id the INSERT is given
NewId ==
    LET taken == DOMAIN db \cup {req[o].new_id : o \in Requests}
    IN  CHOOSE i \in 1..(MaxSessions + 1) :
            i \notin taken /\ \A j \in 1..(i - 1) : j \in taken

\* ---------------------------------------------------------------- handlers

\* get_current_user without the test auth_session.user_id != user_id
CurrentUserAnyOwner(token) ==
    IF ~decode_access_token(token, now) \/ ~ClaimsParse(token) THEN Null
    ELSE LET user_id == IntOf(token.sub)
             session_id == IntOf(token.sid)
         IN  IF user_id \notin DOMAIN users \/ session_id \notin DOMAIN db
                 THEN Null
             ELSE IF ~is_session_active(db[session_id], now) THEN Null
             ELSE user_id

\* get_current_user: the id of the user it returns, or Null when it raises
\* 401
CurrentUser(token) ==
    IF ~decode_access_token(token, now) \/ ~ClaimsParse(token) THEN Null
    ELSE LET user_id == IntOf(token.sub)
             session_id == IntOf(token.sid)
         IN  IF user_id \notin DOMAIN users \/ session_id \notin DOMAIN db
                 THEN Null
             ELSE IF \/ db[session_id].user_id # user_id
                     \/ ~is_session_active(db[session_id], now)
                 THEN Null
             ELSE user_id

get_current_user(token) ==
    /\ resp' = Response("me", IF CurrentUser(token) = Null THEN 401 ELSE 200,
                        CurrentUser(token))
    /\ UNCHANGED <<ledger, tx, users, db, now, req, issued, parent, everRevoked, loggedOut>>

\* refresh_tokens up to line 190: TRUE iff no check raises 401
RefreshAccepts(token) ==
    IF ~decode_refresh_token(token, now) \/ ~ClaimsParse(token) THEN FALSE
    ELSE LET user_id == IntOf(token.sub)
             session_id == IntOf(token.sid)
         IN  IF session_id \notin DOMAIN db THEN FALSE
             ELSE IF db[session_id].user_id # user_id THEN FALSE
             ELSE IF ~is_session_active(db[session_id], now) THEN FALSE
             ELSE IF ~verify_refresh_token(token, db[session_id].refresh_token_hash)
                 THEN FALSE
             ELSE IF user_id \notin DOMAIN users THEN FALSE
             ELSE TRUE

\* refresh_tokens telling the client that its session is no longer active
refresh_tokens_telling(r, token) ==
    /\ Free(r)
    /\ IF ~RefreshAccepts(token)
           THEN /\ resp' = unauthorized("refresh",
                                IF /\ decode_refresh_token(token, now)
                                   /\ ClaimsParse(token)
                                   /\ IntOf(token.sid) \in DOMAIN db
                                   /\ ~is_session_active(db[IntOf(token.sid)], now)
                                    THEN "Session is no longer active"
                                    ELSE "Invalid refresh token")
                /\ UNCHANGED req
           ELSE /\ req' = [req EXCEPT ![r] =
                              [pc |-> "refresh_checked", token |-> token,
                               user_id |-> IntOf(token.sub),
                               session_id |-> IntOf(token.sid),
                               revoked_at |-> now, new_id |-> Null,
                               expires_at |-> refresh_expires_at(now)]]
                /\ UNCHANGED resp
    /\ UNCHANGED <<ledger, tx, users, db, now, issued, parent, everRevoked, loggedOut>>

\* refresh_tokens, lines 172-197: the checks, then the old session marked
\* revoked and the new one built, both in the handler's memory
refresh_tokens(r, token) ==
    /\ Free(r)
    /\ IF ~RefreshAccepts(token)
           THEN /\ resp' = unauthorized("refresh", "Invalid refresh token")
                /\ UNCHANGED req
           ELSE /\ req' = [req EXCEPT ![r] =
                              [pc |-> "refresh_checked", token |-> token,
                               user_id |-> IntOf(token.sub),
                               session_id |-> IntOf(token.sid),
                               revoked_at |-> now, new_id |-> Null,
                               expires_at |-> refresh_expires_at(now)]]
                /\ UNCHANGED resp
    /\ UNCHANGED <<ledger, tx, users, db, now, issued, parent, everRevoked, loggedOut>>

\* the flush with a commit in its place: the revoked old row and the new
\* row with its placeholder hash become visible at once
refresh_flush_autocommit(r) ==
    /\ req[r].pc = "refresh_checked"
    /\ MayFlush(r)
    /\ NewId <= MaxSessions
    /\ req' = [req EXCEPT ![r].pc = "refresh_flushed", ![r].new_id = NewId]
    /\ db' = [s \in DOMAIN db \cup {NewId} |->
                 IF s = NewId
                     THEN AuthSession(req[r].user_id, EmptyHash, req[r].expires_at)
                 ELSE IF s = req[r].session_id
                     THEN [db[s] EXCEPT !.revoked_at = req[r].revoked_at]
                 ELSE db[s]]
    /\ parent' = [s \in DOMAIN db' |-> IF s = NewId THEN req[r].token ELSE parent[s]]
    /\ UNCHANGED <<ledger, tx, users, now, resp, issued, everRevoked, loggedOut>>

\* lines 198-199: session.add, session.flush (UPDATE of the old row, INSERT
\* of the new one with the placeholder hash), inside the open transaction
refresh_flush(r) ==
    /\ req[r].pc = "refresh_checked"
    /\ MayFlush(r)
    /\ NewId <= MaxSessions
    /\ req' = [req EXCEPT ![r].pc = "refresh_flushed", ![r].new_id = NewId]
    /\ UNCHANGED <<ledger, tx, users, db, now, resp, issued, parent, everRevoked, loggedOut>>

\* the commit without line 192: the old session is left as it was
RotatedRowsKeepOld(r, refresh_token) ==
    [s \in DOMAIN db \cup {req[r].new_id} |->
        IF s = req[r].new_id
            THEN AuthSession(req[r].user_id, hash_refresh_token(refresh_token),
                             req[r].expires_at)
        ELSE db[s]]

\* the commit with the old session's expiry moved along with the new one's
RotatedRowsSliding(r, refresh_token) ==
    [s \in DOMAIN db \cup {req[r].new_id} |->
        IF s = req[r].new_id
            THEN AuthSession(req[r].user_id, hash_refresh_token(refresh_token),
                             req[r].expires_at)
        ELSE IF s = req[r].session_id
            THEN [db[s] EXCEPT !.revoked_at = req[r].revoked_at,
                               !.expires_at = req[r].expires_at + 1]
        ELSE db[s]]

\* the commit without lines 86 / 207: the hash stays the placeholder
RotatedRowsUnpatched(r, refresh_token) ==
    [s \in DOMAIN db \cup {req[r].new_id} |->
        IF s = req[r].new_id
            THEN AuthSession(req[r].user_id, EmptyHash, req[r].expires_at)
        ELSE IF s = req[r].session_id
            THEN [db[s] EXCEPT !.revoked_at = req[r].revoked_at]
        ELSE db[s]]

\* the rows a commit of request r makes visible: the new session with the
\* hash of its refresh token, and the old session revoked
RotatedRows(r, refresh_token) ==
    [s \in DOMAIN db \cup {req[r].new_id} |->
        IF s = req[r].new_id
            THEN AuthSession(req[r].user_id, hash_refresh_token(refresh_token),
                             req[r].expires_at)
        ELSE IF s = req[r].session_id
            THEN [db[s] EXCEPT !.revoked_at = req[r].revoked_at]
        ELSE db[s]]

\* lines 206-211: mint the pair, patch the hash, commit, answer
refresh_commit(r) ==
    /\ req[r].pc = "refresh_flushed"
    /\ LET refresh_token == create_refresh_token(req[r].user_id, req[r].new_id, now)
           access_token == create_access_token(req[r].user_id, req[r].new_id, now)
       IN  /\ db' = RotatedRows(r, refresh_token)
           /\ issued' = issued \cup {refresh_token, access_token}
           /\ resp' = Response("refresh", 200, Null)
    /\ parent' = [s \in DOMAIN db' |->
                     IF s = req[r].new_id THEN req[r].token ELSE parent[s]]
    /\ everRevoked' = everRevoked \cup {req[r].session_id}
    /\ req' = [req EXCEPT ![r] = Idle]
    /\ UNCHANGED <<ledger, tx, users, now, loggedOut>>

\* login_user telling an unknown email from a wrong password
login_user_telling(r, email, password) ==
    /\ Free(r)
    /\ LET user == get_user_by_email(email)
       IN  IF user = Null
               THEN /\ resp' = unauthorized("login", "Unknown email")
                    /\ UNCHANGED req
           ELSE IF ~verify_password(password, users[user].password_hash)
               THEN /\ resp' = unauthorized("login", "Incorrect email or password")
                    /\ UNCHANGED req
               ELSE /\ MayFlush(r)
                    /\ NewId <= MaxSessions
                    /\ req' = [req EXCEPT ![r] =
                                  [pc |-> "login_flushed", token |-> EmptyToken,
                                   user_id |-> user, session_id |-> Null,
                                   revoked_at |-> Null, new_id |-> NewId,
                                   expires_at |-> refresh_expires_at(now)]]
                    /\ UNCHANGED resp
    /\ UNCHANGED <<ledger, tx, users, db, now, issued, parent, everRevoked, loggedOut>>

\* login_user and _issue_tokens_for_user up to the flush (lines 157-78)
login_user(r, email, password) ==
    /\ Free(r)
    /\ LET user == get_user_by_email(email)
       IN  IF user = Null \/ ~verify_password(password, users[user].password_hash)
               THEN /\ resp' = unauthorized("login", "Incorrect email or password")
                    /\ UNCHANGED req
               ELSE /\ MayFlush(r)
                    /\ NewId <= MaxSessions
                    /\ req' = [req EXCEPT ![r] =
                                  [pc |-> "login_flushed", token |-> EmptyToken,
                                   user_id |-> user, session_id |-> Null,
                                   revoked_at |-> Null, new_id |-> NewId,
                                   expires_at |-> refresh_expires_at(now)]]
                    /\ UNCHANGED resp
    /\ UNCHANGED <<ledger, tx, users, db, now, issued, parent, everRevoked, loggedOut>>

\* _issue_tokens_for_user, lines 85-90
issue_tokens_commit(r) ==
    /\ req[r].pc = "login_flushed"
    /\ LET refresh_token == create_refresh_token(req[r].user_id, req[r].new_id, now)
           access_token == create_access_token(req[r].user_id, req[r].new_id, now)
       IN  /\ db' = RotatedRows(r, refresh_token)
           /\ issued' = issued \cup {refresh_token, access_token}
           /\ resp' = Response("login", 200, Null)
    /\ parent' = [s \in DOMAIN db' |->
                     IF s = req[r].new_id THEN EmptyToken ELSE parent[s]]
    /\ req' = [req EXCEPT ![r] = Idle]
    /\ UNCHANGED <<ledger, tx, users, now, everRevoked, loggedOut>>

\* logout up to line 227: TRUE iff the token passes the decode, the
\* session, the ownership and the hash check
LogoutAccepts(token) ==
    IF ~decode_refresh_token(token, now) \/ ~ClaimsParse(token) THEN FALSE
    ELSE LET user_id == IntOf(token.sub)
             session_id == IntOf(token.sid)
         IN  IF session_id \notin DOMAIN db THEN FALSE
             ELSE IF db[session_id].user_id # user_id THEN FALSE
             ELSE verify_refresh_token(token, db[session_id].refresh_token_hash)

\* logout answering a token that fails a check the way refresh_tokens does
logout_strict(r, token) ==
    /\ Free(r)
    /\ IF LogoutAccepts(token) /\ db[IntOf(token.sid)].revoked_at = Null
           THEN /\ req' = [req EXCEPT ![r] =
                              [pc |-> "logout_checked", token |-> token,
                               user_id |-> IntOf(token.sub),
                               session_id |-> IntOf(token.sid),
                               revoked_at |-> now, new_id |-> Null,
                               expires_at |-> Null]]
                /\ UNCHANGED <<resp, loggedOut>>
           ELSE /\ resp' = Response("logout",
                                    IF LogoutAccepts(token) THEN 200 ELSE 401, Null)
                /\ loggedOut' = IF LogoutAccepts(token)
                                    THEN loggedOut \cup {token} ELSE loggedOut
                /\ UNCHANGED req
    /\ UNCHANGED <<ledger, tx, users, db, now, issued, parent, everRevoked>>

\* logout without the test of line 229: a session already revoked is
\* revoked again
logout_rerevoking(r, token) ==
    /\ Free(r)
    /\ IF LogoutAccepts(token)
           THEN /\ req' = [req EXCEPT ![r] =
                              [pc |-> "logout_checked", token |-> token,
                               user_id |-> IntOf(token.sub),
                               session_id |-> IntOf(token.sid),
                               revoked_at |-> now, new_id |-> Null,
                               expires_at |-> Null]]
                /\ UNCHANGED <<resp, loggedOut>>
           ELSE /\ resp' = Response("logout", 200, Null)
                /\ UNCHANGED <<req, loggedOut>>
    /\ UNCHANGED <<ledger, tx, users, db, now, issued, parent, everRevoked>>

\* logout, lines 216-230: every path answers LogoutResponse(); the one that
\* found the session not revoked has a commit to make first
logout(r, token) ==
    /\ Free(r)
    /\ IF LogoutAccepts(token) /\ db[IntOf(token.sid)].revoked_at = Null
           THEN /\ req' = [req EXCEPT ![r] =
                              [pc |-> "logout_checked", token |-> token,
                               user_id |-> IntOf(token.sub),
                               session_id |-> IntOf(token.sid),
                               revoked_at |-> now, new_id |-> Null,
                               expires_at |-> Null]]
                /\ UNCHANGED <<resp, loggedOut>>
           ELSE /\ resp' = Response("logout", 200, Null)
                /\ loggedOut' = IF LogoutAccepts(token)
                                    THEN loggedOut \cup {token} ELSE loggedOut
                /\ UNCHANGED req
    /\ UNCHANGED <<ledger, tx, users, db, now, issued, parent, everRevoked>>

\* logout without line 231: revoked_at is set on the object and never
\* committed
logout_commit_lost(r) ==
    /\ req[r].pc = "logout_checked"
    /\ ~RowLocked(r, req[r].session_id)
    /\ resp' = Response("logout", 200, Null)
    /\ loggedOut' = loggedOut \cup {req[r].token}
    /\ req' = [req EXCEPT ![r] = Idle]
    /\ UNCHANGED <<ledger, tx, users, db, now, issued, parent, everRevoked>>

\* the commit revoking every session of the user, not the one session the
\* token names
logout_commit_everywhere(r) ==
    /\ req[r].pc = "logout_checked"
    /\ ~RowLocked(r, req[r].session_id)
    /\ db' = [s \in DOMAIN db |->
                 IF db[s].user_id = req[r].user_id /\ db[s].revoked_at = Null
                     THEN [db[s] EXCEPT !.revoked_at = req[r].revoked_at]
                 ELSE db[s]]
    /\ resp' = Response("logout", 200, Null)
    /\ loggedOut' = loggedOut \cup {req[r].token}
    /\ everRevoked' = everRevoked \cup {req[r].session_id}
    /\ req' = [req EXCEPT ![r] = Idle]
    /\ UNCHANGED <<ledger, tx, users, now, issued, parent>>

\* lines 231-233: session.commit() sends the UPDATE and commits
logout_commit(r) ==
    /\ req[r].pc = "logout_checked"
    /\ ~RowLocked(r, req[r].session_id)
    /\ db' = [db EXCEPT ![req[r].session_id].revoked_at = req[r].revoked_at]
    /\ resp' = Response("logout", 200, Null)
    /\ loggedOut' = loggedOut \cup {req[r].token}
    /\ everRevoked' = everRevoked \cup {req[r].session_id}
    /\ req' = [req EXCEPT ![r] = Idle]
    /\ UNCHANGED <<ledger, tx, users, now, issued, parent>>

\* A Login or Refresh that ends before its commit: the HTTPException of
\* lines 79-83 / 200-204, or the handler dying.  The session is closed
\* without a commit, which rolls the transaction back.
rollback(r) ==
    /\ req[r].pc \in {"refresh_checked", "refresh_flushed", "login_flushed"}
    /\ resp' = Response(IF req[r].pc = "login_flushed" THEN "login" ELSE "refresh",
                        500, Null)
    /\ req' = [req EXCEPT ![r] = Idle]
    /\ UNCHANGED <<ledger, tx, users, db, now, issued, parent, everRevoked, loggedOut>>

\* ------------------------------------------------------------------- clock

\* The clock moves by the lifetime of an access token or of a session.
TickCount(t) == (t \div RefreshLifetime) + ((t % RefreshLifetime) \div AccessLifetime)

Tick ==
    /\ TickCount(now) < MaxTicks
    /\ \E d \in {AccessLifetime, RefreshLifetime} : now' = now + d
    /\ UNCHANGED <<ledger, tx, users, db, req, resp, issued, parent, everRevoked, loggedOut>>

\* ------------------------------------------------------------------ inputs

\* a second token for the same claims, signed at another second
Reissued(t) == [t EXCEPT !.iat = t.iat + 1]
\* the token of one user carrying the subject of another
OtherSubject(t) == [t EXCEPT !.sub = StrClaim(IF t.sub.val = 1 THEN 2 ELSE 1)]
\* create_access_token(expires_minutes=...): an access token that lives as
\* long as a session
LongLived(t) == [t EXCEPT !.exp = t.iat + RefreshLifetime]

\* the pair a login of user 1 at time 0 is given for session 1
FirstRefresh == create_refresh_token(1, 1, 0)
FirstAccess == create_access_token(1, 1, 0)

\* tokens no handler has returned: not a token, a bad signature, claims
\* that are missing or unreadable, and well-signed tokens for session 1
OtherTokens ==
    {EmptyToken, Tampered(FirstRefresh), Tampered(LongLived(FirstAccess)),
     Reissued(FirstRefresh), OtherSubject(FirstRefresh),
     [FirstRefresh EXCEPT !.sid = Absent], [FirstRefresh EXCEPT !.sid = Word],
     [FirstRefresh EXCEPT !.sub = Absent],
     LongLived(FirstAccess), OtherSubject(LongLived(FirstAccess)),
     [LongLived(FirstAccess) EXCEPT !.sub = StrClaim(3)],
     [FirstRefresh EXCEPT !.sid = StrClaim(MaxSessions + 1)]}

\* what a client can send as a token: what it was given, what it made up,
\* and a refresh token it was given, signed again
TokenInputs ==
    issued \cup OtherTokens \cup {Reissued(t) : t \in {i \in issued : i.type = "refresh"}}

EmailInputs == {<<" ", "A">>, <<"b">>, <<"c">>, <<"C">>}

PasswordInputs == {"", "pw-a", "pw-b"}

\* ----------------------------------------------------------- specification

Init ==
    /\ users = (1 :> User(<<"a">>, "pw-a")) @@ (2 :> User(<<"B", " ">>, "pw-b"))
    /\ db = <<>>
    /\ now = 0
    /\ req = [r \in Requests |-> Idle]
    /\ resp = Response("none", 0, Null)
    /\ issued = {}
    /\ parent = <<>>
    /\ everRevoked = {}
    /\ loggedOut = {}
    /\ days = <<>>
    /\ meals = <<>>
    /\ day_seq = 0
    /\ meal_seq = 0
    /\ tx = [r \in Requests |-> TxIdle]
    /\ shadow = [days |-> <<>>, meals |-> <<>>, day_seq |-> 0, meal_seq |-> 0]

\* a request arrives
Arrive ==
    \/ \E r \in Requests, email \in EmailInputs, password \in PasswordInputs :
           login_user(r, email, password)
    \/ \E r \in Requests, token \in TokenInputs : refresh_tokens(r, token)
    \/ \E r \in Requests, token \in TokenInputs : logout(r, token)
    \/ \E token \in TokenInputs : get_current_user(token)

\* a handler goes on
Step ==
    \/ \E r \in Requests : issue_tokens_commit(r)
    \/ \E r \in Requests : refresh_flush(r)
    \/ \E r \in Requests : refresh_commit(r)
    \/ \E r \in Requests : logout_commit(r)
    \/ \E r \in Requests : rollback(r)

Quiet == \A r \in Requests : ~Busy(r)

\* Concurrent handlers, at one instant.
Next == Arrive \/ Step

Spec == Init /\ [][Next]_vars

\* One request at a time, and the clock.
NextClock ==
    \/ \E r \in Requests, email \in EmailInputs, password \in PasswordInputs :
           Quiet /\ login_user(r, email, password)
    \/ \E r \in Requests, token \in TokenInputs : Quiet /\ refresh_tokens(r, token)
    \/ \E r \in Requests, token \in TokenInputs : Quiet /\ logout(r, token)
    \/ \E token \in TokenInputs : Quiet /\ get_current_user(token)
    \/ Quiet /\ Tick
    \/ Step

SpecClock == Init /\ [][NextClock]_vars

\* ------------------------------------------------------------- properties

\* the session a token names
SidOf(t) == IntOf(t.sid)

IssuedRefresh == {t \in issued : t.type = "refresh"}

IssuedAccess == {t \in issued : t.type = "access"}

\* access tokens a client can send that name session s
AccessTokensOf(s) ==
    {a \in TokenInputs : a.type = "access" /\ ~IntRaises(a.sid) /\ SidOf(a) = s}

\* a Refresh that presented t has committed
Rotated(t) == \E s \in DOMAIN parent : parent[s] = t

\* C1: once a Refresh of refresh token t has succeeded, every Refresh of t
\* that arrives later is refused; a refresh token that no Refresh has used
\* yet (and no Logout, and whose session has not run out) is accepted, the
\* token a rotation returned included, and is refused once it was used.
RotationInvalidatesPredecessor ==
    \A t \in IssuedRefresh :
        /\ Rotated(t) => ~RefreshAccepts(t)
        /\ (/\ ~Rotated(t)
            /\ t \notin loggedOut
            /\ now < db[SidOf(t)].expires_at) => RefreshAccepts(t)

\* C1 witness: a token was rotated, the token its rotation returned was
\* rotated too, and a Refresh has just been refused.
RotatedTwiceThenRefused ==
    /\ resp = unauthorized("refresh", "Invalid refresh token")
    /\ \E s1, s2 \in DOMAIN db :
           /\ parent[s1] \in IssuedRefresh
           /\ parent[s2] \in IssuedRefresh
           /\ SidOf(parent[s2]) = s1
           /\ ~RefreshAccepts(parent[s1])
           /\ ~RefreshAccepts(parent[s2])

\* C2: get_current_user refuses every access token of a session that a
\* Logout or a Refresh has revoked, in every state from then on.
RevokedSessionRejectsAccess ==
    \A s \in everRevoked : \A a \in AccessTokensOf(s) : CurrentUser(a) = Null

\* C2 witness: an unexpired access token of a rotated session, another of a
\* logged-out session, and /auth/me has just answered 401.
UnexpiredAccessOfRevokedSession ==
    /\ resp = Response("me", 401, Null)
    /\ \E a, b \in IssuedAccess :
           /\ JwtDecodes(a, now) /\ JwtDecodes(b, now)
           /\ SidOf(a) \in everRevoked /\ SidOf(b) \in everRevoked
           /\ \E t \in IssuedRefresh : SidOf(t) = SidOf(a) /\ Rotated(t)
           /\ \E t \in loggedOut : SidOf(t) = SidOf(b) /\ ~Rotated(t)

\* C3: no two sessions that are active at once descend from the same
\* refresh token.
RefreshTokenSingleUse ==
    \A s1, s2 \in DOMAIN db :
        (/\ s1 # s2
         /\ parent[s1] # EmptyToken
         /\ parent[s1] = parent[s2])
            => ~(is_session_active(db[s1], now) /\ is_session_active(db[s2], now))

\* C4: a step of a Refresh before its commit - the flush, or the request
\* ending in an error - leaves the committed rows as they were: no new row,
\* the old session untouched, the presented token still accepted if it was.
RotationAllOrNothing ==
    [][\A r \in Requests : \A tok \in {req[r].token} :
          (\/ req[r].pc = "refresh_checked" /\ req'[r].pc = "refresh_flushed"
           \/ /\ req[r].pc \in {"refresh_checked", "refresh_flushed"}
              /\ req'[r].pc = "idle"
              /\ resp' = Response("refresh", 500, Null))
              => /\ db' = db
                 /\ req[r].new_id \notin DOMAIN db'
                 /\ req'[r].new_id \notin DOMAIN db'
                 /\ RefreshAccepts(tok) => RefreshAccepts(tok)']_vars

\* C4 witness: a Refresh has flushed its rows and not committed; the
\* committed state still accepts its token and has no row for the new id.
FlushedRotationInvisible ==
    \E r \in Requests :
        /\ req[r].pc = "refresh_flushed"
        /\ RefreshAccepts(req[r].token)
        /\ is_session_active(db[req[r].session_id], now)
        /\ req[r].new_id \notin DOMAIN db

\* C5: every committed session row carries the hash of the refresh token
\* that names it, never the placeholder.
HashNeverPlaceholder ==
    \A s \in DOMAIN db :
        /\ db[s].refresh_token_hash # EmptyHash
        /\ \E t \in IssuedRefresh :
               /\ SidOf(t) = s
               /\ db[s].refresh_token_hash = hash_refresh_token(t)

\* C5 witness: a Login holds a flushed placeholder row while a Refresh of
\* another request is under way and committed sessions exist.
PlaceholderFlushedDuringRefresh ==
    \E r, o \in Requests :
        /\ req[r].pc = "login_flushed"
        /\ req[o].pc = "refresh_checked"
        /\ DOMAIN db # {}

\* C6: every answer of /auth/logout is a success.
LogoutNeverFails == resp.op = "logout" => resp.status = 200

\* C6 witness: Logout has answered in a state where a token was logged out
\* and tokens of every other kind can be sent.
LogoutAnswered ==
    /\ resp = Response("logout", 200, Null)
    /\ loggedOut # {}
    /\ \E t \in IssuedRefresh : Rotated(t)

\* C7: after a Logout that accepted refresh token t, the session of t is
\* revoked: Refresh refuses t and get_current_user refuses every access
\* token of that session.
LogoutRevokes ==
    \A t \in loggedOut :
        /\ db[SidOf(t)].revoked_at # Null
        /\ ~RefreshAccepts(t)
        /\ \A a \in AccessTokensOf(SidOf(t)) : CurrentUser(a) = Null

\* C7 witness: a logged-out session whose refresh and access tokens are
\* both unexpired, and a request has just been refused.
LoggedOutTokensRefused ==
    /\ resp.status = 401
    /\ \E t \in loggedOut : \E a \in IssuedAccess :
           /\ SidOf(a) = SidOf(t)
           /\ JwtDecodes(a, now)
           /\ JwtDecodes(t, now)

\* C8: no step deletes a session row, changes its owner, hash or expiry,
\* clears its revoked_at, or makes a session that is not active active.
SessionStateMonotonic ==
    [][\A s \in DOMAIN db :
          /\ s \in DOMAIN db'
          /\ db'[s].user_id = db[s].user_id
          /\ db'[s].refresh_token_hash = db[s].refresh_token_hash
          /\ db'[s].expires_at = db[s].expires_at
          /\ db[s].revoked_at # Null => db'[s].revoked_at # Null
          /\ ~is_session_active(db[s], now) => ~is_session_active(db'[s], now')]_vars

\* C8 witness: a revoked session beside a session that has run out without
\* being revoked, with a third session created after that.
RevokedAndExpiredSessions ==
    \E s1, s2, s3 \in DOMAIN db :
        /\ db[s1].revoked_at # Null
        /\ db[s2].revoked_at = Null /\ db[s2].expires_at <= now
        /\ is_session_active(db[s3], now)

\* C9: a session is active iff it is not revoked and the clock is before
\* its expiry; Refresh and get_current_user refuse every token of a session
\* whose expiry is at or before the clock.
ExpiredSessionRejected ==
    /\ \A s \in DOMAIN db :
           is_session_active(db[s], now)
               <=> (db[s].revoked_at = Null /\ now < db[s].expires_at)
    /\ \A t \in TokenInputs :
           (/\ ~IntRaises(t.sid)
            /\ SidOf(t) \in DOMAIN db
            /\ db[SidOf(t)].expires_at <= now)
               => ~RefreshAccepts(t) /\ CurrentUser(t) = Null

\* C9 witness: a never-revoked session at the very instant of its expiry,
\* with a refresh token and an access token for it that still decode, are
\* owned by its user and match its hash; Refresh has just answered 401.
ValidTokensOfExpiredSession ==
    /\ resp = unauthorized("refresh", "Invalid refresh token")
    /\ \E t \in IssuedRefresh : \E a \in AccessTokensOf(SidOf(t)) :
           /\ db[SidOf(t)].revoked_at = Null
           /\ db[SidOf(t)].expires_at = now
           /\ decode_refresh_token(t, now)
           /\ verify_refresh_token(t, db[SidOf(t)].refresh_token_hash)
           /\ decode_access_token(a, now)
           /\ IntOf(a.sub) = db[SidOf(t)].user_id

\* what C10 asks of a token for get_current_user to return a user
Resolvable(t) ==
    /\ t.form = "jwt" /\ t.sig /\ t.exp >= now
    /\ t.type = "access"
    /\ t.sub.kind \in {"str", "int"} /\ t.sid.kind \in {"str", "int"}
    /\ IntOf(t.sub) \in DOMAIN users
    /\ SidOf(t) \in DOMAIN db
    /\ db[SidOf(t)].user_id = IntOf(t.sub)
    /\ db[SidOf(t)].revoked_at = Null
    /\ now < db[SidOf(t)].expires_at

\* C10: get_current_user returns the user named by sub when the token is a
\* well-signed, unexpired access token, that user exists, the session named
\* by sid exists, belongs to that user and is active; otherwise it answers
\* 401.
ResolvesOnlyValidAccess ==
    /\ \A t \in TokenInputs :
           CurrentUser(t) = IF Resolvable(t) THEN IntOf(t.sub) ELSE Null
    /\ resp.op = "me" =>
           \/ resp.status = 200 /\ resp.user_id \in DOMAIN users
           \/ resp.status = 401 /\ resp.user_id = Null

\* C10 witness: /auth/me has just returned a user while an issued access
\* token is expired although its session is active, and while a well-signed
\* token names an active session of another user.
ResolvedBesideInvalidTokens ==
    /\ resp.op = "me" /\ resp.status = 200
    /\ \E a \in IssuedAccess :
           a.exp < now /\ is_session_active(db[SidOf(a)], now)
    /\ \E t \in TokenInputs :
           /\ decode_access_token(t, now)
           /\ SidOf(t) \in DOMAIN db
           /\ is_session_active(db[SidOf(t)], now)
           /\ db[SidOf(t)].user_id # IntOf(t.sub)

\* -------------------------------------------------- refusals and logins

\* the ways a refresh token can fail, as the checks of refresh_tokens meet
\* them
Undecodable(t) == t.form = "empty" \/ ~t.sig
Expired(t) == t.form = "jwt" /\ t.sig /\ t.exp < now
WrongType(t) == JwtDecodes(t, now) /\ t.type # "refresh"
ClaimMissing(t) ==
    /\ JwtDecodes(t, now) /\ t.type = "refresh"
    /\ (Falsy(t.sub) \/ ~ClaimsParse(t))
Readable(t) == decode_refresh_token(t, now) /\ ClaimsParse(t)
SessionAbsent(t) == Readable(t) /\ SidOf(t) \notin DOMAIN db
OwnerDiffers(t) ==
    /\ Readable(t) /\ SidOf(t) \in DOMAIN db
    /\ db[SidOf(t)].user_id # IntOf(t.sub)
SessionInactive(t) ==
    /\ Readable(t) /\ SidOf(t) \in DOMAIN db
    /\ db[SidOf(t)].user_id = IntOf(t.sub)
    /\ ~is_session_active(db[SidOf(t)], now)
HashDiffers(t) ==
    /\ Readable(t) /\ SidOf(t) \in DOMAIN db
    /\ db[SidOf(t)].user_id = IntOf(t.sub)
    /\ is_session_active(db[SidOf(t)], now)
    /\ hash_refresh_token(t) # db[SidOf(t)].refresh_token_hash

\* C11: in every state, a Refresh of a token that fails any of the checks
\* can only answer 401 with the one detail "Invalid refresh token",
\* whichever check failed, and leave the auth_sessions table, every open
\* transaction and the tokens given out as they were.
FailingRefreshUniform ==
    \A r \in Requests : \A tok \in TokenInputs :
        (Free(r) /\ ~RefreshAccepts(tok))
            => ~ENABLED (/\ refresh_tokens(r, tok)
                         /\ ~(/\ resp' = unauthorized("refresh", "Invalid refresh token")
                              /\ db' = db
                              /\ req' = req
                              /\ issued' = issued))

\* C11 witness: a Refresh has been refused while the client holds a token
\* for every way of failing.
RefusedForEveryReason ==
    /\ resp = unauthorized("refresh", "Invalid refresh token")
    /\ \E t \in TokenInputs : Undecodable(t)
    /\ \E t \in TokenInputs : Expired(t)
    /\ \E t \in TokenInputs : WrongType(t)
    /\ \E t \in TokenInputs : ClaimMissing(t)
    /\ \E t \in TokenInputs : SessionAbsent(t)
    /\ \E t \in TokenInputs : OwnerDiffers(t)
    /\ \E t \in TokenInputs : SessionInactive(t)
    /\ \E t \in TokenInputs : HashDiffers(t)

\* C12: a token of one type is never taken for the other: no access token
\* decodes as a refresh token, is accepted by Refresh or revokes anything
\* at Logout, and no refresh token decodes as an access token or resolves
\* to a user.
TokenTypesNotInterchangeable ==
    \A t \in TokenInputs :
        /\ t.type = "access"
               => /\ ~decode_refresh_token(t, now)
                  /\ ~RefreshAccepts(t)
                  /\ ~LogoutAccepts(t)
        /\ t.type = "refresh"
               => /\ ~decode_access_token(t, now)
                  /\ CurrentUser(t) = Null

\* C12 witness: an active session whose own two tokens are both in the
\* client's hands, each good for its own use, after /auth/me refused one.
BothTokensOfActiveSession ==
    /\ resp = Response("me", 401, Null)
    /\ \E rt \in IssuedRefresh : \E at \in IssuedAccess :
           /\ SidOf(rt) = SidOf(at)
           /\ RefreshAccepts(rt)
           /\ CurrentUser(at) # Null
           /\ CurrentUser(rt) = Null

\* C13: the commit of a Login adds exactly one session row, owned by the
\* user whose email and password the request carried, active, expiring one
\* refresh lifetime from now, and changes no other row; of the two tokens it
\* returns, the refresh token is accepted by Refresh and the access token
\* resolves to that user.
LoginCreatesSession ==
    [][/\ \A r \in Requests :
              (req[r].pc = "idle" /\ req'[r].pc = "login_flushed")
                  => \A e \in EmailInputs : \A p \in PasswordInputs :
                         login_user(r, e, p)
                             => /\ req'[r].user_id \in DOMAIN users
                                /\ users[req'[r].user_id].email = NormalizeEmail(e)
                                /\ verify_password(
                                       p, users[req'[r].user_id].password_hash)
       /\ \A r \in Requests :
              (req[r].pc = "login_flushed" /\ issue_tokens_commit(r))
                  => LET s == req[r].new_id
                         u == req[r].user_id
                         given == issued' \ issued
                     IN  /\ s \notin DOMAIN db
                         /\ DOMAIN db' = DOMAIN db \cup {s}
                         /\ \A o \in DOMAIN db : db'[o] = db[o]
                         /\ db'[s].user_id = u
                         /\ db'[s].expires_at = now + RefreshLifetime
                         /\ is_session_active(db'[s], now')
                         /\ resp' = Response("login", 200, Null)
                         /\ \E rt, at \in given :
                                /\ given = {rt, at}
                                /\ rt.type = "refresh" /\ at.type = "access"
                                /\ RefreshAccepts(rt)'
                                /\ CurrentUser(at)' = u]_vars

\* C13 witness: a Login has just answered at a late hour, and the user it
\* logged in holds a session that expires one refresh lifetime from now.
LoggedInLate ==
    /\ resp = Response("login", 200, Null)
    /\ now > 0
    /\ \E s \in DOMAIN db :
           /\ db[s].expires_at = now + RefreshLifetime
           /\ parent[s] = EmptyToken
           /\ \E rt \in IssuedRefresh : SidOf(rt) = s /\ RefreshAccepts(rt)

\* C14: in every state, a Login with an email no user has, or with a wrong
\* password for a known email, can only answer 401 with the one detail
\* "Incorrect email or password", and neither creates nor flushes a session
\* row.
FailingLoginUniform ==
    \A r \in Requests : \A e \in EmailInputs : \A p \in PasswordInputs :
        LET user == get_user_by_email(e)
        IN  (/\ Free(r)
             /\ user = Null \/ ~verify_password(p, users[user].password_hash))
                => ~ENABLED (/\ login_user(r, e, p)
                             /\ ~(/\ resp' = unauthorized(
                                               "login", "Incorrect email or password")
                                  /\ db' = db
                                  /\ req' = req
                                  /\ issued' = issued))

\* C14 witness: a Login has been refused where an unknown email and a wrong
\* password for a known one can both be sent.
LoginRefused ==
    /\ resp = unauthorized("login", "Incorrect email or password")
    /\ \E e \in EmailInputs : get_user_by_email(e) = Null
    /\ \E e \in EmailInputs : \E p \in PasswordInputs \ {""} :
           /\ get_user_by_email(e) # Null
           /\ ~verify_password(p, users[get_user_by_email(e)].password_hash)

\* ---------------------------------------------------------------- register

\* what /auth/register and /auth/email_exists leave alone
authState == <<db, now, req, issued, parent, everRevoked, loggedOut>>

\* UserCreate.password has min_length 8: the empty password never reaches
\* the handler
NewPasswordInputs == PasswordInputs \ {""}

\* the id the INSERT into users is given
NewUserId ==
    CHOOSE i \in 1..(Cardinality(DOMAIN users) + 1) :
        i \notin DOMAIN users /\ \A j \in 1..(i - 1) : j \in DOMAIN users

\* the unique index ix_users_email holds a committed row with this email
EmailTaken(email) == \E u \in DOMAIN users : users[u].email = email

\* register_user, lines 130-141: the lookup, 409 when it finds a user,
\* otherwise the new row built in the handler's memory
register_user(r, email, password) ==
    /\ Free(r)
    /\ IF get_user_by_email(email) # Null
           THEN /\ resp' = HttpError("register", 409,
                                     "User with this email already exists")
                /\ UNCHANGED tx
           ELSE /\ tx' = [tx EXCEPT ![r] =
                             [TxIdle EXCEPT
                                 !.pc = "register_checked",
                                 !.email = User(email, password).email,
                                 !.password_hash =
                                     User(email, password).password_hash]]
                /\ UNCHANGED resp
    /\ UNCHANGED <<ledger, users, authState>>

\* lines 148-152: session.add, session.commit.  The INSERT is sent by the
\* commit; when a row with the email was committed since the lookup the
\* unique index refuses it, the IntegrityError leaves the handler uncaught
\* and the client reads 500.
register_commit(r) ==
    /\ tx[r].pc = "register_checked"
    /\ IF EmailTaken(tx[r].email)
           THEN /\ resp' = HttpError("register", 500, "Internal Server Error")
                /\ UNCHANGED users
           ELSE /\ users' = [u \in DOMAIN users \cup {NewUserId} |->
                                IF u = NewUserId
                                    THEN [email |-> tx[r].email,
                                          password_hash |-> tx[r].password_hash]
                                ELSE users[u]]
                /\ resp' = Response("register", 201, NewUserId)
    /\ tx' = [tx EXCEPT ![r] = TxIdle]
    /\ UNCHANGED <<ledger, authState>>

\* email_exists, lines 123-125
email_exists(email) ==
    /\ resp' = [op |-> "email_exists", status |-> 200, user_id |-> Null,
                email |-> NormalizeEmail(email),
                exists |-> get_user_by_email(email) # Null]
    /\ UNCHANGED <<ledger, tx, users, authState>>

\* Registration, the lookup of an email and Login, concurrently.
NextRegister ==
    \/ \E r \in Requests, email \in EmailInputs, password \in NewPasswordInputs :
           register_user(r, email, password)
    \/ \E r \in Requests : register_commit(r)
    \/ \E email \in EmailInputs : email_exists(email)
    \/ \E r \in Requests, email \in EmailInputs, password \in PasswordInputs :
           login_user(r, email, password)
    \/ \E r \in Requests : issue_tokens_commit(r)

SpecRegister == Init /\ [][NextRegister]_vars

\* ----------------------------------------------------- emails and accounts

Conflict == HttpError("register", 409, "User with this email already exists")

\* a stored user has this email, trimmed and lower-cased on both sides
SameEmailStored(e) ==
    \E u \in DOMAIN users : NormalizeEmail(users[u].email) = NormalizeEmail(e)

\* C15: no two users have emails that are equal ignoring case, and a
\* Register whose email, trimmed and lower-cased, is that of a stored user
\* can only answer 409 Conflict and store nothing.
EmailUniqueIgnoringCase ==
    /\ \A u, v \in DOMAIN users :
           u # v => Lower(users[u].email) # Lower(users[v].email)
    /\ \A r \in Requests : \A e \in EmailInputs : \A p \in NewPasswordInputs :
           (Free(r) /\ SameEmailStored(e))
               => ~ENABLED (/\ register_user(r, e, p)
                            /\ ~(/\ resp' = Conflict
                                 /\ users' = users
                                 /\ tx' = tx))

\* C15 witness: a user was registered, and a later Register was refused
\* with Conflict.
RegisteredThenConflict ==
    /\ resp = Conflict
    /\ \E u \in DOMAIN users : users[u].email = <<"c">>

\* C16: every Register is answered 201 or 409; a Register that lost the
\* race for an email to a concurrent one is told Conflict.
RegisterRaceGivesConflict ==
    resp.op = "register" => resp.status \in {201, 409}

\* C17: every stored email is its own trimmed, lower-cased form; the lookup
\* finds the user for every spelling of the email; Login with that spelling
\* and the user's password is not refused; and email_exists answers
\* exists = TRUE exactly for the emails Register refuses with Conflict.
EmailsNormalizedEverywhere ==
    /\ \A u \in DOMAIN users : users[u].email = NormalizeEmail(users[u].email)
    /\ \A e \in EmailInputs : \A u \in DOMAIN users :
           NormalizeEmail(e) = users[u].email
               => /\ get_user_by_email(e) = u
                  /\ \A r \in Requests : \A p \in PasswordInputs :
                         (Free(r) /\ verify_password(p, users[u].password_hash))
                             => ~ENABLED (login_user(r, e, p) /\ req' = req)
    /\ \A e \in EmailInputs :
           LET told == ENABLED (email_exists(e) /\ resp'.exists)
           IN  /\ ENABLED (email_exists(e) /\ resp'.email = NormalizeEmail(e))
               /\ \A r \in Requests : \A p \in NewPasswordInputs :
                      Free(r)
                          => /\ told <=> ENABLED (/\ register_user(r, e, p)
                                                  /\ resp' = Conflict
                                                  /\ tx' = tx)
                             /\ ~told <=> ENABLED (/\ register_user(r, e, p)
                                                   /\ tx' # tx)

\* C17 witness: a registered user has logged in, and email_exists has then
\* answered that the email is taken.
RegisteredUserFound ==
    /\ resp.op = "email_exists" /\ resp.exists /\ resp.email = <<"c">>
    /\ \E u \in DOMAIN users :
           /\ users[u].email = <<"c">>
           /\ \E s \in DOMAIN db : db[s].user_id = u

\* ------------------------------------------------------------- meal ledger
\* app/api/routes/stats.py.  A meal's time is kept as its calendar day.

StatisticsDay(user_id, day) == [user_id |-> user_id, day |-> day]

MealEntry(statistics_day_id, user_id, time, dish_name) ==
    [statistics_day_id |-> statistics_day_id, user_id |-> user_id,
     time |-> time, dish_name |-> dish_name]

\* MealCreate.time: a datetime without a zone, or one with a UTC offset;
\* `at` is the wall-clock reading in minutes
Naive(at) == [at |-> at, zoned |-> FALSE, offset |-> 0]
Zoned(at, offset) == [at |-> at, zoned |-> TRUE, offset |-> offset]

\* _to_utc_naive dropping the zone without converting: the wall clock of
\* the sender is kept
to_utc_naive_wall_clock(value) == value.at

\* _to_utc_naive: a zone-less value as it is, any other moved to UTC with
\* the zone dropped
to_utc_naive(value) ==
    IF ~value.zoned THEN value.at ELSE value.at - value.offset

\* datetime.date()
DateOf(t) == t \div MinutesPerDay

\* the calendar days a request can name
DayInputs == {1, 2}

\* MealCreate.dish_name: blank, and a name with a blank before it
DishInputs == {<<" ">>, <<" ", "x">>}

\* select(StatisticsDay).where(user_id, day).first(): the id, or Null
BucketOf(user_id, day) ==
    LET found == {d \in DOMAIN days :
                     days[d].user_id = user_id /\ days[d].day = day}
    IN  IF found = {} THEN Null
        ELSE CHOOSE d \in found : \A e \in found : d <= e

\* handlers of create_meal that have not committed yet
InFlight == Cardinality({r \in Requests : tx[r].pc # "idle"})

\* uq_statistics_days_user_id_day: an INSERT of (user_id, day) waits while
\* another transaction holds an uncommitted row with the same key
DayInsertWaits(r) ==
    \E o \in Requests \ {r} :
        /\ tx[o].pc = "meal_flushed"
        /\ tx[o].user_id = tx[r].user_id
        /\ tx[o].day = tx[r].day

\* create_meal that checks the stripped name and stores the name as sent
create_meal_untrimmed(r, user_id, dish_name, time) ==
    /\ Free(r)
    /\ IF Strip(dish_name) = <<>>
           THEN /\ resp' = HttpError("create_meal", 422,
                                     "dishName must not be empty")
                /\ UNCHANGED tx
           ELSE /\ day_seq + InFlight < MaxDayIds
                /\ meal_seq + InFlight < MaxMealIds
                /\ tx' = [tx EXCEPT ![r] =
                             [TxIdle EXCEPT !.pc = "meal_selected",
                                            !.user_id = user_id,
                                            !.time = to_utc_naive(time),
                                            !.day = DateOf(to_utc_naive(time)),
                                            !.dish_name = dish_name,
                                            !.day_id = BucketOf(
                                                user_id,
                                                DateOf(to_utc_naive(time)))]]
                /\ UNCHANGED resp
    /\ UNCHANGED <<ledger, users, authState>>

\* create_meal, lines 87-102: the dish name check and the lookup of the
\* day's bucket
create_meal(r, user_id, dish_name, time) ==
    /\ Free(r)
    /\ IF Strip(dish_name) = <<>>
           THEN /\ resp' = HttpError("create_meal", 422,
                                     "dishName must not be empty")
                /\ UNCHANGED tx
           ELSE /\ day_seq + InFlight < MaxDayIds
                /\ meal_seq + InFlight < MaxMealIds
                /\ tx' = [tx EXCEPT ![r] =
                             [TxIdle EXCEPT !.pc = "meal_selected",
                                            !.user_id = user_id,
                                            !.time = to_utc_naive(time),
                                            !.day = DateOf(to_utc_naive(time)),
                                            !.dish_name = Strip(dish_name),
                                            !.day_id = BucketOf(
                                                user_id,
                                                DateOf(to_utc_naive(time)))]]
                /\ UNCHANGED resp
    /\ UNCHANGED <<ledger, users, authState>>

\* the flush with no unique constraint on (user_id, day)
create_meal_flush_unconstrained(r) ==
    /\ tx[r].pc = "meal_selected"
    /\ tx[r].day_id = Null
    /\ tx' = [tx EXCEPT ![r].pc = "meal_flushed", ![r].day_id = day_seq + 1]
    /\ day_seq' = day_seq + 1
    /\ UNCHANGED <<resp, days, meals, meal_seq, users, authState>>

\* lines 103-106: no bucket was found, so one is added and flushed.  When
\* a bucket for the day was committed since the lookup, the INSERT breaks
\* the unique constraint: session.flush() raises IntegrityError, nothing
\* catches it, and the client reads 500.
create_meal_flush(r) ==
    /\ tx[r].pc = "meal_selected"
    /\ tx[r].day_id = Null
    /\ ~DayInsertWaits(r)
    /\ IF BucketOf(tx[r].user_id, tx[r].day) # Null
           THEN /\ resp' = HttpError("create_meal", 500, "Internal Server Error")
                /\ tx' = [tx EXCEPT ![r] = TxIdle]
                /\ UNCHANGED day_seq
           ELSE /\ tx' = [tx EXCEPT ![r].pc = "meal_flushed",
                                    ![r].day_id = day_seq + 1]
                /\ day_seq' = day_seq + 1
                /\ UNCHANGED resp
    /\ UNCHANGED <<days, meals, meal_seq, users, authState>>

\* lines 114-127: the meal is added under the bucket and the transaction
\* committed.  When the bucket that was found has been deleted since the
\* lookup, the INSERT breaks the foreign key of statistics_day_id:
\* session.commit() raises IntegrityError and the client reads 500.
create_meal_commit(r) ==
    /\ \/ tx[r].pc = "meal_flushed"
       \/ tx[r].pc = "meal_selected" /\ tx[r].day_id # Null
    /\ IF tx[r].pc = "meal_selected" /\ tx[r].day_id \notin DOMAIN days
           THEN /\ resp' = HttpError("create_meal", 500, "Internal Server Error")
                /\ UNCHANGED <<days, meals>>
           ELSE /\ days' = IF tx[r].pc = "meal_flushed"
                               THEN [d \in DOMAIN days \cup {tx[r].day_id} |->
                                        IF d = tx[r].day_id
                                            THEN StatisticsDay(tx[r].user_id,
                                                               tx[r].day)
                                        ELSE days[d]]
                           ELSE days
                /\ meals' = [m \in DOMAIN meals \cup {meal_seq + 1} |->
                                IF m = meal_seq + 1
                                    THEN MealEntry(tx[r].day_id, tx[r].user_id,
                                                   tx[r].time, tx[r].dish_name)
                                ELSE meals[m]]
                /\ resp' = Response("create_meal", 201, tx[r].user_id)
    /\ meal_seq' = meal_seq + 1
    /\ tx' = [tx EXCEPT ![r] = TxIdle]
    /\ UNCHANGED <<day_seq, users, authState>>

\* the meals a delete leaves: all but those in `gone`
WithoutMeals(gone) == [m \in DOMAIN meals \ gone |-> meals[m]]

WithoutDay(day_id) == [d \in DOMAIN days \ {day_id} |-> days[d]]

\* delete_day without the delete of the bucket row
delete_day_meals_only(user_id, day) ==
    LET statistics_day == BucketOf(user_id, day)
    IN  /\ IF statistics_day = Null
               THEN /\ resp' = HttpError("delete_day", 404,
                                         "Statistics day not found")
                    /\ UNCHANGED <<days, meals>>
               ELSE /\ meals' = WithoutMeals(
                                    {m \in DOMAIN meals :
                                        /\ meals[m].statistics_day_id = statistics_day
                                        /\ meals[m].user_id = user_id})
                    /\ days' = days
                    /\ resp' = Response("delete_day", 204, user_id)
        /\ UNCHANGED <<day_seq, meal_seq, tx, users, authState>>

\* delete_day with the user left out of both selects
delete_day_unscoped(user_id, day) ==
    LET found == {d \in DOMAIN days : days[d].day = day}
        statistics_day ==
            IF found = {} THEN Null
            ELSE CHOOSE d \in found : \A e \in found : d <= e
    IN  /\ IF statistics_day = Null
               THEN /\ resp' = HttpError("delete_day", 404,
                                         "Statistics day not found")
                    /\ UNCHANGED <<days, meals>>
               ELSE /\ meals' = WithoutMeals(
                                    {m \in DOMAIN meals :
                                        meals[m].statistics_day_id = statistics_day})
                    /\ days' = WithoutDay(statistics_day)
                    /\ resp' = Response("delete_day", 204, user_id)
        /\ UNCHANGED <<day_seq, meal_seq, tx, users, authState>>

\* delete_day, lines 203-223
delete_day(user_id, day) ==
    LET statistics_day == BucketOf(user_id, day)
    IN  /\ IF statistics_day = Null
               THEN /\ resp' = HttpError("delete_day", 404,
                                         "Statistics day not found")
                    /\ UNCHANGED <<days, meals>>
               ELSE /\ meals' = WithoutMeals(
                                    {m \in DOMAIN meals :
                                        /\ meals[m].statistics_day_id = statistics_day
                                        /\ meals[m].user_id = user_id})
                    /\ days' = WithoutDay(statistics_day)
                    /\ resp' = Response("delete_day", 204, user_id)
        /\ UNCHANGED <<day_seq, meal_seq, tx, users, authState>>

\* delete_daily_meal that leaves the bucket of the last meal in place
delete_daily_meal_keeping(user_id, day, meal_id) ==
    LET statistics_day == BucketOf(user_id, day)
    IN  /\ IF statistics_day = Null
               THEN /\ resp' = HttpError("delete_daily_meal", 404,
                                         "Statistics day not found")
                    /\ UNCHANGED <<days, meals>>
           ELSE IF \/ meal_id \notin DOMAIN meals
                   \/ meals[meal_id].user_id # user_id
                   \/ meals[meal_id].statistics_day_id # statistics_day
               THEN /\ resp' = HttpError("delete_daily_meal", 404,
                                         "Meal not found in this day")
                    /\ UNCHANGED <<days, meals>>
               ELSE /\ meals' = WithoutMeals({meal_id})
                    /\ days' = days
                    /\ resp' = Response("delete_daily_meal", 204, user_id)
        /\ UNCHANGED <<day_seq, meal_seq, tx, users, authState>>

\* delete_daily_meal that looks the meal up by id and user alone
delete_daily_meal_any_day(user_id, day, meal_id) ==
    LET statistics_day == BucketOf(user_id, day)
        has_remaining ==
            \E m \in DOMAIN meals :
                /\ meals[m].user_id = user_id
                /\ meals[m].statistics_day_id = statistics_day
                /\ m # meal_id
    IN  /\ IF statistics_day = Null
               THEN /\ resp' = HttpError("delete_daily_meal", 404,
                                         "Statistics day not found")
                    /\ UNCHANGED <<days, meals>>
           ELSE IF \/ meal_id \notin DOMAIN meals
                   \/ meals[meal_id].user_id # user_id
               THEN /\ resp' = HttpError("delete_daily_meal", 404,
                                         "Meal not found in this day")
                    /\ UNCHANGED <<days, meals>>
               ELSE /\ meals' = WithoutMeals({meal_id})
                    /\ days' = IF has_remaining THEN days
                               ELSE WithoutDay(statistics_day)
                    /\ resp' = Response("delete_daily_meal", 204, user_id)
        /\ UNCHANGED <<day_seq, meal_seq, tx, users, authState>>

\* delete_daily_meal, lines 233-266
delete_daily_meal(user_id, day, meal_id) ==
    LET statistics_day == BucketOf(user_id, day)
        has_remaining ==
            \E m \in DOMAIN meals :
                /\ meals[m].user_id = user_id
                /\ meals[m].statistics_day_id = statistics_day
                /\ m # meal_id
    IN  /\ IF statistics_day = Null
               THEN /\ resp' = HttpError("delete_daily_meal", 404,
                                         "Statistics day not found")
                    /\ UNCHANGED <<days, meals>>
           ELSE IF \/ meal_id \notin DOMAIN meals
                   \/ meals[meal_id].user_id # user_id
                   \/ meals[meal_id].statistics_day_id # statistics_day
               THEN /\ resp' = HttpError("delete_daily_meal", 404,
                                         "Meal not found in this day")
                    /\ UNCHANGED <<days, meals>>
               ELSE /\ meals' = WithoutMeals({meal_id})
                    /\ days' = IF has_remaining THEN days
                               ELSE WithoutDay(statistics_day)
                    /\ resp' = Response("delete_daily_meal", 204, user_id)
        /\ UNCHANGED <<day_seq, meal_seq, tx, users, authState>>

\* the ids a request can name as a meal
MealIdInputs == 1..MaxMealIds

\* meal times: midnight of each day, without a zone
LedgerTimes == {Naive(d * MinutesPerDay) : d \in DayInputs}

\* Meals are logged concurrently; a delete runs while no other request is
\* in flight.
NextLedger ==
    \/ \E r \in Requests, user_id \in DOMAIN users, dish_name \in DishInputs,
          time \in LedgerTimes : create_meal(r, user_id, dish_name, time)
    \/ \E r \in Requests : create_meal_flush(r) /\ UNCHANGED shadow
    \/ \E r \in Requests : create_meal_commit(r) /\ UNCHANGED shadow
    \/ \E user_id \in DOMAIN users, day \in DayInputs :
           Quiet /\ delete_day(user_id, day) /\ UNCHANGED shadow
    \/ \E user_id \in DOMAIN users, day \in DayInputs, meal_id \in MealIdInputs :
           Quiet /\ delete_daily_meal(user_id, day, meal_id) /\ UNCHANGED shadow

SpecLedger == Init /\ [][NextLedger]_vars

\* --------------------------------------------------------- ledger properties

\* a handler that found no bucket for its day, which now has one
LostRace(r) ==
    /\ tx[r].pc = "meal_selected"
    /\ tx[r].day_id = Null
    /\ BucketOf(tx[r].user_id, tx[r].day) # Null

\* C18: no two statistics_days rows have the same user and the same day.
OneBucketPerUserDay ==
    \A d, e \in DOMAIN days :
        (days[d].user_id = days[e].user_id /\ days[d].day = days[e].day)
            => d = e

\* C18 witness: two handlers logged a meal for the same user and the same
\* new day, both found no bucket, and one of them has committed its bucket.
BucketRaceDecided ==
    /\ resp.op = "create_meal" /\ resp.status = 201
    /\ \E r \in Requests : LostRace(r)

\* C19: every logMeal with a name that is not blank answers 201; the
\* handler whose bucket insert is refused reads the bucket again and stores
\* its meal under it.
MealRaceBothSucceed ==
    resp.op = "create_meal" => resp.status \in {201, 422}

\* C20: a user has a bucket for a day exactly when a meal of that user is
\* stored for that day, and every meal lies under the bucket of its user
\* and day.
BucketIffMeals ==
    /\ \A u \in DOMAIN users : \A d \in DayInputs :
           BucketOf(u, d) # Null
               <=> \E m \in DOMAIN meals :
                       /\ meals[m].user_id = u
                       /\ meals[m].statistics_day_id = BucketOf(u, d)
    /\ \A m \in DOMAIN meals :
           /\ meals[m].statistics_day_id \in DOMAIN days
           /\ meals[m].statistics_day_id = BucketOf(meals[m].user_id,
                                                       DateOf(meals[m].time))

\* C20 witness: after buckets were made for at least two logMeals, a
\* deleteMeal has just removed the last meal stored, and no bucket is left.
BucketGoneWithLastMeal ==
    /\ resp.op = "delete_daily_meal" /\ resp.status = 204
    /\ day_seq >= 2
    /\ days = <<>>
    /\ meals = <<>>

\* ------------------------------------------------------------- ledger reads

\* the code point of a character of a dish name
Code(c) ==
    CASE c = " " -> 32
      [] c = "A" -> 65 [] c = "B" -> 66 [] c = "C" -> 67
      [] c = "a" -> 97 [] c = "b" -> 98 [] c = "c" -> 99
      [] c = "x" -> 120

\* s sorts before t, character by character
TextBefore(s, t) ==
    \E k \in 1..(Len(s) + 1) :
        /\ k <= Len(t)
        /\ \A i \in 1..(k - 1) : s[i] = t[i]
        /\ k <= Len(s) => Code(s[k]) < Code(t[k])

\* an ORDER BY: the rows of S, each once, every row before the rows that
\* the order (a set of pairs) puts after it
SortedBy(S, before) ==
    IF S = {} THEN <<>>
    ELSE CHOOSE q \in [1..Cardinality(S) -> S] :
             \A i, j \in 1..Cardinality(S) : i < j => <<q[i], q[j]>> \in before

\* newest first, the meals of one instant in the order they were stored
MealBeforeOldestId(M, a, b) ==
    \/ M[a].time > M[b].time
    \/ M[a].time = M[b].time /\ a < b

\* order_by(MealEntry.time.desc(), MealEntry.id.desc())
MealBefore(M, a, b) ==
    \/ M[a].time > M[b].time
    \/ M[a].time = M[b].time /\ a > b

\* the order by the name as stored, capitals before small letters
DishBeforeByCodePoint(M, a, b) ==
    \/ TextBefore(M[a].dish_name, M[b].dish_name)
    \/ /\ M[a].dish_name = M[b].dish_name
       /\ MealBefore(M, a, b)

\* order_by(func.lower(MealEntry.dish_name), MealEntry.time.desc(),
\*          MealEntry.id.desc())
DishBefore(M, a, b) ==
    \/ TextBefore(Lower(M[a].dish_name), Lower(M[b].dish_name))
    \/ /\ Lower(M[a].dish_name) = Lower(M[b].dish_name)
       /\ MealBefore(M, a, b)

\* order_by(StatisticsDay.day.desc())
DayBefore(D, a, b) == D[a].day > D[b].day

\* the three orders as sets of pairs of row ids
MealOrder(M) == {p \in (DOMAIN M) \X (DOMAIN M) : MealBefore(M, p[1], p[2])}
DishOrder(M) == {p \in (DOMAIN M) \X (DOMAIN M) : DishBefore(M, p[1], p[2])}
DayOrder(D) == {p \in (DOMAIN D) \X (DOMAIN D) : DayBefore(D, p[1], p[2])}

\* _serialize_meal
MealRead(M, m) ==
    [id |-> m, time |-> M[m].time, dish_name |-> M[m].dish_name]

\* _serialize_statistics_day
StatisticsDayRead(day, meal_reads) == [day |-> day, meals |-> meal_reads]

\* the rows of a sequence of ids, serialized in its order
MealReads(M, ids) == [i \in DOMAIN ids |-> MealRead(M, ids[i])]

\* get_statistics over the tables D and M: the user's buckets newest day
\* first, and under each the user's meals that carry its id, in the order
\* of the one query that reads them all
StatisticsRead(D, M, user_id) ==
    LET statistics_days ==
            SortedBy({d \in DOMAIN D : D[d].user_id = user_id}, DayOrder(D))
        all_meals ==
            SortedBy({m \in DOMAIN M : M[m].user_id = user_id}, MealOrder(M))
        meals_by_day_id(d) ==
            SelectSeq(all_meals, LAMBDA m : M[m].statistics_day_id = d)
    IN  [i \in DOMAIN statistics_days |->
            StatisticsDayRead(D[statistics_days[i]].day,
                              MealReads(M, meals_by_day_id(statistics_days[i])))]

\* select(StatisticsDay).where(user_id, day).first() over the table D
FirstBucket(D, user_id, day) ==
    LET found == {d \in DOMAIN D : D[d].user_id = user_id /\ D[d].day = day}
    IN  IF found = {} THEN Null
        ELSE CHOOSE d \in found : \A e \in found : d <= e

\* get_daily_meals over the tables D and M
DailyMealsRead(D, M, user_id, day) ==
    LET statistics_day == FirstBucket(D, user_id, day)
    IN  IF statistics_day = Null THEN StatisticsDayRead(day, <<>>)
        ELSE StatisticsDayRead(
                 D[statistics_day].day,
                 MealReads(M, SortedBy(
                     {m \in DOMAIN M :
                         /\ M[m].user_id = user_id
                         /\ M[m].statistics_day_id = statistics_day}, MealOrder(M))))

\* get_dish_names with the user left out of the select
DishNamesReadUnscoped(M, user_id) ==
    LET ordered == SortedBy(DOMAIN M, DishOrder(M))
    IN  [i \in DOMAIN ordered |-> [id |-> ordered[i],
                                   dish_name |-> M[ordered[i]].dish_name]]

\* DishNameRead
DishNameRead(M, m) == [id |-> m, dish_name |-> M[m].dish_name]

\* get_dish_names over the table M: one entry for each meal of the user
DishNamesRead(M, user_id) ==
    LET ordered == SortedBy({m \in DOMAIN M : M[m].user_id = user_id}, DishOrder(M))
    IN  [i \in DOMAIN ordered |-> DishNameRead(M, ordered[i])]

\* the select by id alone
MealOfAnyUser(M, user_id, dish_id) ==
    IF dish_id \in DOMAIN M THEN dish_id ELSE Null

\* select(MealEntry).where(user_id, id).first() over the table M
MealOfUser(M, user_id, dish_id) ==
    IF dish_id \in DOMAIN M /\ M[dish_id].user_id = user_id
        THEN dish_id ELSE Null

\* a response with a body
Answer(op, status, user_id, body) ==
    [op |-> op, status |-> status, user_id |-> user_id, body |-> body]

\* what the reads leave alone
stored == <<days, meals, day_seq, meal_seq, tx, users, authState>>

\* get_statistics, lines 130-158
get_statistics(user_id) ==
    /\ resp' = Answer("get_statistics", 200, user_id,
                      StatisticsRead(days, meals, user_id))
    /\ UNCHANGED stored

\* get_daily_meals that resolves the day the way create_meal does: a day
\* without a bucket gets one
get_daily_meals_creating(user_id, day) ==
    /\ resp' = Answer("get_daily_meals", 200, user_id,
                      DailyMealsRead(days, meals, user_id, day))
    /\ days' = IF BucketOf(user_id, day) # Null THEN days
               ELSE [d \in DOMAIN days \cup {day_seq + 1} |->
                        IF d = day_seq + 1 THEN StatisticsDay(user_id, day)
                        ELSE days[d]]
    /\ day_seq' = IF BucketOf(user_id, day) # Null THEN day_seq
                  ELSE day_seq + 1
    /\ UNCHANGED <<meals, meal_seq, tx, users, authState>>

\* get_daily_meals, lines 161-194
get_daily_meals(user_id, day) ==
    /\ resp' = Answer("get_daily_meals", 200, user_id,
                      DailyMealsRead(days, meals, user_id, day))
    /\ UNCHANGED stored

\* get_dish_names, lines 269-294
get_dish_names(user_id) ==
    /\ resp' = Answer("get_dish_names", 200, user_id,
                      DishNamesRead(meals, user_id))
    /\ UNCHANGED stored

\* get_meals_by_dish_id, lines 297-319: dishId is a query parameter that
\* must be greater than 0
get_meals_by_dish_id(user_id, dish_id) ==
    LET meal == MealOfUser(meals, user_id, dish_id)
    IN  /\ resp' = IF dish_id <= 0
                       THEN HttpError("get_meals_by_dish_id", 422,
                                      "Input should be greater than 0")
                   ELSE IF meal = Null
                       THEN HttpError("get_meals_by_dish_id", 404,
                                      "Dish not found")
                   ELSE Answer("get_meals_by_dish_id", 200, user_id,
                               [dish_id |-> dish_id,
                                dish_name |-> meals[meal].dish_name,
                                meals |-> <<MealRead(meals, meal)>>])
        /\ UNCHANGED stored

\* MealCreate.dish_name: blank, and two names that sort one way by code
\* point and the other way in lower case, one with a blank before it
StatsDishInputs == {<<" ">>, <<" ", "B">>, <<"a">>}

\* MealCreate.time: midnight of day 1; ten past midnight of day 2 at UTC+1,
\* which is 23:10 of day 1 in UTC; midnight of day 2
StatsTimes ==
    {Naive(MinutesPerDay), Zoned(2 * MinutesPerDay + 10, 60),
     Naive(2 * MinutesPerDay)}

\* the dishId values a request can carry
DishIdInputs == 0..MaxMealIds

\* The ledger with one request at a time: each request arrives when no
\* other is in flight.
NextStats ==
    \/ \E r \in Requests, user_id \in DOMAIN users,
          dish_name \in StatsDishInputs, time \in StatsTimes :
           Quiet /\ create_meal(r, user_id, dish_name, time)
    \/ \E r \in Requests : create_meal_flush(r) /\ UNCHANGED shadow
    \/ \E r \in Requests : create_meal_commit(r) /\ UNCHANGED shadow
    \/ \E user_id \in DOMAIN users, day \in DayInputs :
           Quiet /\ delete_day(user_id, day) /\ UNCHANGED shadow
    \/ \E user_id \in DOMAIN users, day \in DayInputs, meal_id \in MealIdInputs :
           Quiet /\ delete_daily_meal(user_id, day, meal_id) /\ UNCHANGED shadow
    \/ \E user_id \in DOMAIN users :
           Quiet /\ get_statistics(user_id) /\ UNCHANGED shadow
    \/ \E user_id \in DOMAIN users, day \in DayInputs :
           Quiet /\ get_daily_meals(user_id, day) /\ UNCHANGED shadow
    \/ \E user_id \in DOMAIN users :
           Quiet /\ get_dish_names(user_id) /\ UNCHANGED shadow
    \/ \E user_id \in DOMAIN users, dish_id \in DishIdInputs :
           Quiet /\ get_meals_by_dish_id(user_id, dish_id) /\ UNCHANGED shadow

SpecStats == Init /\ [][NextStats]_vars

\* ------------------------------------------------------ statistics properties

NoDay == HttpError("delete_day", 404, "Statistics day not found")

\* the answer of getDay for a day without meals
EmptyDay(user_id, day) ==
    Answer("get_daily_meals", 200, user_id, StatisticsDayRead(day, <<>>))

\* C21: getDay for a user and a date without a bucket answers with an
\* empty bucket for that date and stores nothing, and the deleteDay that
\* follows it for that date fails NotFound.
GetDayOfAbsentBucket ==
    \A u \in DOMAIN users : \A d \in DayInputs :
        /\ (Quiet /\ BucketOf(u, d) = Null)
               => ~ENABLED (/\ get_daily_meals(u, d)
                            /\ ~(/\ resp' = EmptyDay(u, d)
                                 /\ days' = days
                                 /\ meals' = meals))
        /\ (Quiet /\ resp = EmptyDay(u, d))
               => ~ENABLED (delete_day(u, d) /\ resp' # NoDay)

\* C21 witness: user 1 has a bucket for day 1 and none for day 2, and has
\* just read day 2 as an empty bucket.
EmptyDayRead ==
    /\ resp = EmptyDay(1, 2)
    /\ BucketOf(1, 1) # Null
    /\ BucketOf(1, 2) = Null

\* the rows of a table whose ids are in `kept`
Rows(T, kept) == [x \in DOMAIN T \cap kept |-> T[x]]

\* C22: deleteDay for a date without a bucket of the user fails NotFound
\* and stores nothing; for a date with one, a single step removes the
\* bucket and every meal under it and nothing else, after which getDay
\* reads the date as empty and the user has no bucket for it, so that
\* another deleteDay fails NotFound.
DeleteDayAllOrNothing ==
    \A u \in DOMAIN users : \A d \in DayInputs :
        LET b == BucketOf(u, d)
        IN  /\ (Quiet /\ b = Null)
                   => ~ENABLED (/\ delete_day(u, d)
                                /\ ~(/\ resp' = NoDay
                                     /\ days' = days
                                     /\ meals' = meals))
            /\ (Quiet /\ b # Null)
                   => ~ENABLED (/\ delete_day(u, d)
                                /\ ~(/\ resp' = Response("delete_day", 204, u)
                                     /\ days' = Rows(days, DOMAIN days \ {b})
                                     /\ meals' = Rows(meals,
                                            {m \in DOMAIN meals :
                                                meals[m].statistics_day_id # b})
                                     /\ FirstBucket(days', u, d) = Null
                                     /\ DailyMealsRead(days', meals', u, d)
                                            = StatisticsDayRead(d, <<>>)))

\* C22 witness: a deleteDay of user 1 has just succeeded; it left one of
\* the two buckets made so far, with its meal.
DayDeleted ==
    /\ resp = Response("delete_day", 204, 1)
    /\ day_seq = 2
    /\ Cardinality(DOMAIN days) = 1
    /\ Cardinality(DOMAIN meals) = 1

NoMealInDay ==
    HttpError("delete_daily_meal", 404, "Meal not found in this day")

\* C23: deleteMeal fails NotFound and stores nothing when the user has no
\* bucket for the date or no meal with that id and that user lies under
\* the bucket; otherwise it removes that one meal, leaves every other meal,
\* and removes no bucket but the one it emptied.
DeleteMealExactlyOne ==
    \A u \in DOMAIN users : \A d \in DayInputs : \A meal_id \in MealIdInputs :
        LET b == BucketOf(u, d)
            under(m) == /\ m \in DOMAIN meals
                        /\ meals[m].user_id = u
                        /\ meals[m].statistics_day_id = b
        IN  /\ (Quiet /\ (b = Null \/ ~under(meal_id)))
                   => ~ENABLED (/\ delete_daily_meal(u, d, meal_id)
                                /\ ~(/\ resp' = IF b = Null
                                                    THEN HttpError(
                                                        "delete_daily_meal", 404,
                                                        "Statistics day not found")
                                                ELSE NoMealInDay
                                     /\ days' = days
                                     /\ meals' = meals))
            /\ (Quiet /\ b # Null /\ under(meal_id))
                   => ~ENABLED (/\ delete_daily_meal(u, d, meal_id)
                                /\ ~(/\ resp' = Response("delete_daily_meal",
                                                         204, u)
                                     /\ meals' = Rows(meals,
                                                      DOMAIN meals \ {meal_id})
                                     /\ days' = IF \E m \in DOMAIN meals \ {meal_id} :
                                                       under(m)
                                                    THEN days
                                                ELSE Rows(days,
                                                          DOMAIN days \ {b})))

\* C23 witness: every meal id a request can name is stored and every row
\* belongs to user 1, who has just named, for one of their days, a meal
\* that lies under another day, and was refused.
MealOfAnotherDayRefused ==
    /\ resp = NoMealInDay
    /\ MealIdInputs \subseteq DOMAIN meals
    /\ \A m \in DOMAIN meals : meals[m].user_id = 1
    /\ \A d \in DOMAIN days : days[d].user_id = 1

\* the rows of a table that a user owns
Owned(T, user_id) == Rows(T, {x \in DOMAIN T : T[x].user_id = user_id})

\* the step leaves the rows of every user but `a` as they are
OthersKept(a) ==
    \A b \in DOMAIN users \ {a} :
        /\ Owned(days', b) = Owned(days, b)
        /\ Owned(meals', b) = Owned(meals, b)

\* C24: no step of a logMeal, a deleteDay or a deleteMeal of user A changes
\* a bucket or a meal owned by another user, and A's deleteDay for a date
\* that only other users have a bucket for, and A's deleteMeal for a meal
\* another user owns, fail NotFound.
WritesStayWithTheirUser ==
    \A a \in DOMAIN users :
        /\ \A r \in Requests :
               tx[r].user_id = a
                   => ~ENABLED (/\ create_meal_flush(r) \/ create_meal_commit(r)
                                /\ ~OthersKept(a))
        /\ \A d \in DayInputs :
               /\ Quiet => ~ENABLED (delete_day(a, d) /\ ~OthersKept(a))
               /\ (/\ Quiet
                   /\ \A x \in DOMAIN days :
                          days[x].day = d => days[x].user_id # a)
                      => ~ENABLED (delete_day(a, d) /\ resp' # NoDay)
               /\ \A meal_id \in MealIdInputs :
                      /\ Quiet => ~ENABLED (/\ delete_daily_meal(a, d, meal_id)
                                            /\ ~OthersKept(a))
                      /\ (/\ Quiet
                          /\ meal_id \in DOMAIN meals
                          /\ meals[meal_id].user_id # a)
                             => ~ENABLED (/\ delete_daily_meal(a, d, meal_id)
                                          /\ resp'.status # 404)

\* C24 witness: user 2 has a bucket for each day, and a deleteDay of user 1
\* has just succeeded.
DeletedBesideAnotherUser ==
    /\ resp = Response("delete_day", 204, 1)
    /\ BucketOf(2, 1) # Null
    /\ BucketOf(2, 2) # Null

\* ------------------------------------------------- two runs of the ledger

\* a table with one more row
WithRow(T, id, row) == [x \in DOMAIN T \cup {id} |-> IF x = id THEN row ELSE T[x]]

\* create_meal from the request to the commit, on the ledger L
LogMeal(L, user_id, dish_name, time) ==
    LET meal_time == to_utc_naive(time)
        day_value == DateOf(meal_time)
        found == FirstBucket(L.days, user_id, day_value)
        statistics_day == IF found = Null THEN L.day_seq + 1 ELSE found
    IN  IF Strip(dish_name) = <<>> THEN L
        ELSE [days |-> IF found = Null
                           THEN WithRow(L.days, statistics_day,
                                        StatisticsDay(user_id, day_value))
                       ELSE L.days,
              meals |-> WithRow(L.meals, L.meal_seq + 1,
                                MealEntry(statistics_day, user_id, meal_time,
                                          Strip(dish_name))),
              day_seq |-> IF found = Null THEN L.day_seq + 1 ELSE L.day_seq,
              meal_seq |-> L.meal_seq + 1]

\* delete_day on the ledger L
DeleteDay(L, user_id, day) ==
    LET statistics_day == FirstBucket(L.days, user_id, day)
    IN  IF statistics_day = Null THEN L
        ELSE [L EXCEPT
                 !.meals = Rows(L.meals,
                                {m \in DOMAIN L.meals :
                                    ~(/\ L.meals[m].statistics_day_id = statistics_day
                                      /\ L.meals[m].user_id = user_id)}),
                 !.days = Rows(L.days, DOMAIN L.days \ {statistics_day})]

\* delete_daily_meal on the ledger L
DeleteMeal(L, user_id, day, meal_id) ==
    LET statistics_day == FirstBucket(L.days, user_id, day)
        has_remaining ==
            \E m \in DOMAIN L.meals :
                /\ L.meals[m].user_id = user_id
                /\ L.meals[m].statistics_day_id = statistics_day
                /\ m # meal_id
    IN  IF \/ statistics_day = Null
           \/ meal_id \notin DOMAIN L.meals
           \/ L.meals[meal_id].user_id # user_id
           \/ L.meals[meal_id].statistics_day_id # statistics_day
            THEN L
        ELSE [L EXCEPT
                 !.meals = Rows(L.meals, DOMAIN L.meals \ {meal_id}),
                 !.days = IF has_remaining THEN L.days
                          ELSE Rows(L.days, DOMAIN L.days \ {statistics_day})]

\* the ledger the service holds
Ledger ==
    [days |-> days, meals |-> meals, day_seq |-> day_seq, meal_seq |-> meal_seq]

\* MealCreate.dish_name in the two runs
RunsDishInputs == {<<" ">>, <<"a">>}

\* Two runs side by side, one request at a time.  The first run is the
\* service, with the requests of every user; the second receives the same
\* requests of user 1, in the same order, and none of another user.
NextRuns ==
    \/ \E r \in Requests, user_id \in DOMAIN users,
          dish_name \in RunsDishInputs, time \in LedgerTimes :
           Quiet /\ create_meal(r, user_id, dish_name, time)
    \/ \E r \in Requests : create_meal_flush(r) /\ UNCHANGED shadow
    \/ \E r \in Requests :
           /\ create_meal_commit(r)
           /\ shadow' = IF tx[r].user_id = 1
                            THEN LogMeal(shadow, 1, tx[r].dish_name,
                                         Naive(tx[r].time))
                        ELSE shadow
    \/ \E user_id \in DOMAIN users, day \in DayInputs :
           /\ Quiet /\ delete_day(user_id, day)
           /\ shadow' = IF user_id = 1 THEN DeleteDay(shadow, 1, day)
                        ELSE shadow
    \/ \E user_id \in DOMAIN users, day \in DayInputs, meal_id \in MealIdInputs :
           /\ Quiet /\ delete_daily_meal(user_id, day, meal_id)
           /\ shadow' = IF user_id = 1 THEN DeleteMeal(shadow, 1, day, meal_id)
                        ELSE shadow
    \/ \E user_id \in DOMAIN users :
           Quiet /\ get_statistics(user_id) /\ UNCHANGED shadow
    \/ \E user_id \in DOMAIN users, day \in DayInputs :
           Quiet /\ get_daily_meals(user_id, day) /\ UNCHANGED shadow
    \/ \E user_id \in DOMAIN users :
           Quiet /\ get_dish_names(user_id) /\ UNCHANGED shadow
    \/ \E user_id \in DOMAIN users, dish_id \in DishIdInputs :
           Quiet /\ get_meals_by_dish_id(user_id, dish_id) /\ UNCHANGED shadow

SpecRuns == Init /\ [][NextRuns]_vars

\* the second run is the service run without the other users: handler by
\* handler, the ledger operations give what the handlers store (the flush
\* of a new bucket has taken its id from the sequence before the commit)
HandlersAsOperations ==
    /\ \A r \in Requests :
           ~ENABLED (/\ create_meal_commit(r)
                     /\ Ledger' # LogMeal(
                            [Ledger EXCEPT !.day_seq =
                                IF tx[r].pc = "meal_flushed" THEN @ - 1 ELSE @],
                            tx[r].user_id, tx[r].dish_name, Naive(tx[r].time)))
    /\ \A u \in DOMAIN users : \A d \in DayInputs :
           /\ Quiet => ~ENABLED (/\ delete_day(u, d)
                                 /\ Ledger' # DeleteDay(Ledger, u, d))
           /\ \A meal_id \in MealIdInputs :
                  Quiet => ~ENABLED (/\ delete_daily_meal(u, d, meal_id)
                                     /\ Ledger' # DeleteMeal(Ledger, u, d, meal_id))

NoDish == HttpError("get_meals_by_dish_id", 404, "Dish not found")

\* the ids of the meals a read of listStatistics or getDay returns
IdsOfDay(day_read) == {day_read.meals[i].id : i \in DOMAIN day_read.meals}

\* C25 as stated: what user 1 reads is the same in the run with the
\* requests of every user and in the run with the requests of user 1 alone.
ReadsSameInBothRuns ==
    /\ StatisticsRead(days, meals, 1)
           = StatisticsRead(shadow.days, shadow.meals, 1)
    /\ \A d \in DayInputs :
           DailyMealsRead(days, meals, 1, d)
               = DailyMealsRead(shadow.days, shadow.meals, 1, d)
    /\ DishNamesRead(meals, 1) = DishNamesRead(shadow.meals, 1)
    /\ \A dish_id \in DishIdInputs :
           MealOfUser(meals, 1, dish_id) = MealOfUser(shadow.meals, 1, dish_id)

\* C25: every read of user A answers from the rows A owns and from nothing
\* else: the answer is what the same read gives on A's rows alone, every
\* meal in it is owned by A, and findByDish with the id of a meal of
\* another user fails NotFound.
ReadsOfOwnRowsOnly ==
    \A a \in DOMAIN users :
        \A own_days \in {Owned(days, a)} : \A own_meals \in {Owned(meals, a)} :
            /\ Quiet
                   => ~ENABLED (/\ get_statistics(a)
                                /\ ~(/\ resp'.body
                                            = StatisticsRead(own_days, own_meals, a)
                                     /\ \A i \in DOMAIN resp'.body :
                                            IdsOfDay(resp'.body[i])
                                                \subseteq DOMAIN own_meals))
            /\ \A d \in DayInputs :
                   Quiet
                       => ~ENABLED (/\ get_daily_meals(a, d)
                                    /\ ~(/\ resp'.body
                                                = DailyMealsRead(own_days,
                                                                 own_meals, a, d)
                                         /\ IdsOfDay(resp'.body)
                                                \subseteq DOMAIN own_meals))
            /\ Quiet
                   => ~ENABLED (/\ get_dish_names(a)
                                /\ ~(/\ resp'.body = DishNamesRead(own_meals, a)
                                     /\ \A i \in DOMAIN resp'.body :
                                            resp'.body[i].id \in DOMAIN own_meals))
            /\ \A dish_id \in DishIdInputs \ {0} :
                   Quiet
                       => ~ENABLED (/\ get_meals_by_dish_id(a, dish_id)
                                    /\ ~(IF dish_id \in DOMAIN own_meals
                                             THEN /\ resp'.status = 200
                                                  /\ resp'.body.meals
                                                         = <<MealRead(own_meals,
                                                                      dish_id)>>
                                         ELSE resp' = NoDish))

\* C25 witness: user 2 owns a meal, and user 1 has just read the list of
\* their dish names, which is not empty.
ReadBesideAnotherUser ==
    /\ resp.op = "get_dish_names"
    /\ resp.user_id = 1
    /\ resp.body # <<>>
    /\ \E m \in DOMAIN meals : meals[m].user_id = 2

\* a list of meals as read, newest first, the later id first among the
\* meals of one instant
NewestFirst(meal_reads) ==
    \A k, l \in DOMAIN meal_reads :
        k < l => \/ meal_reads[k].time > meal_reads[l].time
                 \/ /\ meal_reads[k].time = meal_reads[l].time
                    /\ meal_reads[k].id > meal_reads[l].id

\* a list of meals as read holds each meal of `ids` once, as it is stored
EachOnce(meal_reads, ids) ==
    /\ Len(meal_reads) = Cardinality(ids)
    /\ IdsOfDay([meals |-> meal_reads]) = ids
    /\ \A k \in DOMAIN meal_reads :
           /\ meal_reads[k].id \in DOMAIN meals
           /\ meal_reads[k].time = meals[meal_reads[k].id].time
           /\ meal_reads[k].dish_name = meals[meal_reads[k].id].dish_name

\* C26: listStatistics returns each bucket of the user once, the later day
\* first, and in each bucket the meals stored under it, each once, the
\* later instant first and the later id first among equal instants.
StatisticsNewestFirst ==
    \A u \in DOMAIN users :
        Quiet
            => ~ENABLED
                 (/\ get_statistics(u)
                  /\ ~(/\ resp'.status = 200
                       /\ Len(resp'.body)
                              = Cardinality({d \in DOMAIN days :
                                                days[d].user_id = u})
                       /\ \A d \in DOMAIN days :
                              days[d].user_id = u
                                  => \E i \in DOMAIN resp'.body :
                                         resp'.body[i].day = days[d].day
                       /\ \A i, j \in DOMAIN resp'.body :
                              i < j => resp'.body[i].day > resp'.body[j].day
                       /\ \A i \in DOMAIN resp'.body :
                              /\ EachOnce(resp'.body[i].meals,
                                          {m \in DOMAIN meals :
                                              /\ BucketOf(u, resp'.body[i].day) # Null
                                              /\ meals[m].statistics_day_id
                                                     = BucketOf(u, resp'.body[i].day)})
                              /\ NewestFirst(resp'.body[i].meals)))

\* C26 witness: a listStatistics has returned two buckets, one of them
\* with two meals of the same instant.
TwoDaysAndATieRead ==
    /\ resp.op = "get_statistics"
    /\ Len(resp.body) = 2
    /\ \E i \in DOMAIN resp.body :
           /\ Len(resp.body[i].meals) = 2
           /\ resp.body[i].meals[1].time = resp.body[i].meals[2].time

\* a name of blanks only
Blank(name) == \A i \in DOMAIN name : name[i] = " "

\* s is the name without the blanks before its first and after its last
\* character that is not a blank
TrimOf(s, name) ==
    \E i, j \in DOMAIN name :
        /\ s = SubSeq(name, i, j)
        /\ name[i] # " " /\ name[j] # " "
        /\ \A k \in DOMAIN name : (k < i \/ k > j) => name[k] = " "

\* C27: logMeal with a name of blanks only fails InvalidInput, stores
\* nothing and opens no transaction; any other name is taken on trimmed,
\* and the meal is stored under the name taken on.
BlankNameRefusedOthersTrimmed ==
    /\ \A r \in Requests : \A u \in DOMAIN users :
       \A name \in StatsDishInputs : \A t \in StatsTimes :
           /\ Blank(name)
                  => ~ENABLED (/\ create_meal(r, u, name, t)
                               /\ ~(/\ resp' = HttpError(
                                                   "create_meal", 422,
                                                   "dishName must not be empty")
                                    /\ tx' = tx
                                    /\ days' = days
                                    /\ meals' = meals))
           /\ ~Blank(name)
                  => ~ENABLED (/\ create_meal(r, u, name, t)
                               /\ ~(/\ resp' = resp
                                    /\ TrimOf(tx'[r].dish_name, name)))
    /\ \A r \in Requests :
           ~ENABLED (/\ create_meal_commit(r)
                     /\ ~(/\ DOMAIN meals' = DOMAIN meals \cup {meal_seq + 1}
                          /\ meals'[meal_seq + 1].dish_name = tx[r].dish_name
                          /\ resp' = Response("create_meal", 201,
                                              tx[r].user_id)))

\* C27 witness: a logMeal has just succeeded, and a meal is stored under
\* the name "B", which was sent with a blank before it.
PaddedNameStoredTrimmed ==
    /\ resp.op = "create_meal" /\ resp.status = 201
    /\ \E m \in DOMAIN meals : meals[m].dish_name = <<"B">>

\* C28: listDishNames returns one entry for each meal of the user, with the
\* meal's id and name, ordered by the name in lower case and, for names
\* that are equal in lower case, the later instant first and then the
\* later id first.
DishNamesAlphabetical ==
    \A u \in DOMAIN users :
        Quiet
            => ~ENABLED
                 (/\ get_dish_names(u)
                  /\ ~(/\ resp'.status = 200
                       /\ Len(resp'.body)
                              = Cardinality({m \in DOMAIN meals :
                                                meals[m].user_id = u})
                       /\ {resp'.body[i].id : i \in DOMAIN resp'.body}
                              = {m \in DOMAIN meals : meals[m].user_id = u}
                       /\ \A i \in DOMAIN resp'.body :
                              resp'.body[i].dish_name
                                  = meals[resp'.body[i].id].dish_name
                       /\ \A i, j \in DOMAIN resp'.body :
                              i < j
                                  => LET x == resp'.body[i].id
                                         y == resp'.body[j].id
                                         nx == Lower(meals[x].dish_name)
                                         ny == Lower(meals[y].dish_name)
                                     IN  \/ TextBefore(nx, ny)
                                         \/ /\ nx = ny
                                            /\ \/ meals[x].time > meals[y].time
                                               \/ /\ meals[x].time = meals[y].time
                                                  /\ x > y))

\* C28 witness: a listDishNames has returned two meals named "a", the one
\* stored later first, and after them a meal named "B".
AlphabeticalListRead ==
    /\ resp.op = "get_dish_names"
    /\ Len(resp.body) = 3
    /\ resp.body[1].dish_name = <<"a">>
    /\ resp.body[2].dish_name = <<"a">>
    /\ resp.body[3].dish_name = <<"B">>
    /\ resp.body[1].id > resp.body[2].id

\* C29: findByDish with an id greater than 0 under which the user owns no
\* meal fails NotFound, and with each id that listDishNames returns for
\* the user it succeeds and returns the meal of that id, with the name
\* listDishNames gave for it.
ListedDishesAreFound ==
    \A u \in DOMAIN users : \A listed \in {DishNamesRead(meals, u)} :
        \A dish_id \in DishIdInputs \ {0} :
            /\ (/\ Quiet
                /\ ~(dish_id \in DOMAIN meals /\ meals[dish_id].user_id = u))
                   => ~ENABLED (/\ get_meals_by_dish_id(u, dish_id)
                                /\ resp' # NoDish)
            /\ \A i \in DOMAIN listed :
                   (Quiet /\ listed[i].id = dish_id)
                       => ~ENABLED
                            (/\ get_meals_by_dish_id(u, dish_id)
                             /\ ~(/\ resp'.status = 200
                                  /\ resp'.body.dish_id = dish_id
                                  /\ resp'.body.dish_name = listed[i].dish_name
                                  /\ Len(resp'.body.meals) = 1
                                  /\ resp'.body.meals[1].id = dish_id
                                  /\ resp'.body.meals[1].dish_name
                                         = meals[dish_id].dish_name
                                  /\ resp'.body.meals[1].time
                                         = meals[dish_id].time))

\* C29 witness: meal 1 belongs to one user, and the other user has just
\* found their meal 2 by its id.
DishFoundById ==
    /\ resp.op = "get_meals_by_dish_id" /\ resp.status = 200
    /\ resp.body.dish_id = 2
    /\ 1 \in DOMAIN meals
    /\ meals[1].user_id # resp.user_id

\* ------------------------------------------------------------ OpenAI proxy

\* config.py: OPENAI_FOOD_PHOTO_MAX_OUTPUT_TOKENS and
\* OPENAI_SELF_ADD_FOOD_MAX_OUTPUT_TOKENS
OPENAI_FOOD_PHOTO_MAX_OUTPUT_TOKENS == 1200

\* the most a request may ask for, and the least a retry adds
OUTPUT_TOKENS_CEILING == 4096
OUTPUT_TOKENS_STEP == 400
OUTPUT_TOKENS_FLOOR == 200

Max(a, b) == IF a >= b THEN a ELSE b
Min(a, b) == IF a <= b THEN a ELSE b

\* next_limit without the min(..., 4096)
next_limit_uncapped(current_limit) ==
    Max(current_limit + OUTPUT_TOKENS_STEP, (current_limit * 3) \div 2)

\* line 153: min(max(current_limit + 400, int(current_limit * 1.5)), 4096)
next_limit(current_limit) ==
    Min(Max(current_limit + OUTPUT_TOKENS_STEP, (current_limit * 3) \div 2),
        OUTPUT_TOKENS_CEILING)

\* a response of the Responses API: its status and, when it has
\* incomplete_details with a reason, the reason ("" when it has none)
ApiResponse(status, reason) == [status |-> status, reason |-> reason]

\* _incomplete_reason: "" stands for the None of a response that is not
\* incomplete
incomplete_reason(response) ==
    IF response.status # "incomplete" THEN ""
    ELSE IF response.reason # "" THEN response.reason
    ELSE "unknown"

\* what client.responses.create can do: return a response or raise
Outcomes ==
    {ApiResponse("completed", ""),
     ApiResponse("incomplete", "max_output_tokens"),
     ApiResponse("incomplete", "content_filter"),
     ApiResponse("incomplete", "")}
    \cup {[raises |-> e] :
            e \in {"BadRequestError: Unsupported parameter: 'temperature'",
                   "BadRequestError", "AuthenticationError",
                   "PermissionDeniedError",
                   "RateLimitError", "APITimeoutError", "APIConnectionError",
                   "APIError"}}

Raises(outcome) == "raises" \in DOMAIN outcome

\* the status_code of the exceptions that carry the status of an upstream
\* answer, and the message of its body
UpstreamStatus(exception) ==
    CASE exception = "BadRequestError: Unsupported parameter: 'temperature'"
             -> 400
      [] exception = "BadRequestError" -> 400
      [] exception = "AuthenticationError" -> 401
      [] exception = "PermissionDeniedError" -> 403
      [] exception = "RateLimitError" -> 429
      [] OTHER -> Null

UpstreamMessage(exception) ==
    CASE exception = "BadRequestError: Unsupported parameter: 'temperature'"
             -> "Unsupported parameter: 'temperature'"
      [] exception = "BadRequestError" -> "bad request"
      [] exception = "AuthenticationError" -> "Invalid API key"
      [] exception = "PermissionDeniedError"
             -> "Project has no access to this model"
      [] exception = "RateLimitError" -> "Rate limit reached"
      [] OTHER -> ""

\* lines 160-191: the HTTPException each exception becomes.  An exception
\* of a class without a clause of its own, such as the one of an upstream
\* 403, is an APIError.
OpenAIError(exception) ==
    CASE exception = "BadRequestError: Unsupported parameter: 'temperature'"
             -> HttpError("create_openai_response", 400,
                          "Unsupported parameter: 'temperature'")
      [] exception = "BadRequestError"
             -> HttpError("create_openai_response", 400, "bad request")
      [] exception = "AuthenticationError"
             -> HttpError("create_openai_response", 502,
                          "OpenAI authentication failed")
      [] exception = "RateLimitError"
             -> HttpError("create_openai_response", 429,
                          "OpenAI rate limit exceeded")
      [] exception = "APITimeoutError"
             -> HttpError("create_openai_response", 504,
                          "OpenAI request timed out")
      [] exception = "APIConnectionError"
             -> HttpError("create_openai_response", 502,
                          "Cannot reach OpenAI API")
      [] exception \in {"PermissionDeniedError", "APIError"}
             -> HttpError("create_openai_response", 502,
                          "OpenAI API request failed")

\* _normalize_max_output_tokens, lines 356-361
normalize_max_output_tokens(value) ==
    IF value < OUTPUT_TOKENS_FLOOR THEN OUTPUT_TOKENS_FLOOR
    ELSE IF value > OUTPUT_TOKENS_CEILING THEN OUTPUT_TOKENS_CEILING
    ELSE value

\* request_params["max_output_tokens"]: Null when the key is absent, and
\* otherwise what _normalize_max_output_tokens makes of the setting
OutputTokenInputs ==
    {Null} \cup {normalize_max_output_tokens(v) :
                    v \in {100, OPENAI_FOOD_PHOTO_MAX_OUTPUT_TOKENS, 3000, 5000}}

\* max_output_token_retries
RetryInputs == {-1, 0, 1, 2}

\* _create_openai_response, lines 134-141: the copy of the parameters and
\* the retries left
create_openai_response(r, max_output_tokens, temperature, max_output_token_retries) ==
    /\ Free(r)
    /\ tx' = [tx EXCEPT ![r] =
                 [TxIdle EXCEPT !.pc = "openai",
                                !.max_output_tokens = max_output_tokens,
                                !.temperature = temperature,
                                !.max_output_token_retries =
                                    max_output_token_retries,
                                !.retries_left =
                                    Max(0, max_output_token_retries)]]
    /\ UNCHANGED <<resp, ledger, users, authState>>

\* lines 142-191: one turn of the loop, in which client.responses.create
\* is called with the parameters as they are now and gives `outcome`.
\* calls is the record the client keeps of the limits it was asked for.
responses_create(r, outcome) ==
    LET current_limit == tx[r].max_output_tokens
        calls == Append(tx[r].calls, current_limit)
    IN  /\ tx[r].pc = "openai"
        /\ IF Raises(outcome)
               THEN IF /\ outcome.raises
                            = "BadRequestError: Unsupported parameter: 'temperature'"
                       /\ tx[r].temperature
                        THEN /\ tx' = [tx EXCEPT ![r].temperature = FALSE,
                                                 ![r].calls = calls]
                             /\ UNCHANGED resp
                    ELSE /\ resp' = OpenAIError(outcome.raises)
                         /\ tx' = [tx EXCEPT ![r] = TxIdle]
           ELSE IF /\ incomplete_reason(outcome) = "max_output_tokens"
                   /\ tx[r].retries_left > 0
                   /\ current_limit # Null
                   /\ next_limit(current_limit) > current_limit
               THEN /\ tx' = [tx EXCEPT
                                 ![r].max_output_tokens = next_limit(current_limit),
                                 ![r].retries_left = @ - 1,
                                 ![r].calls = calls]
                    /\ UNCHANGED resp
           ELSE /\ resp' = Answer("create_openai_response", 200, Null,
                                  [response |-> outcome, calls |-> calls])
                /\ tx' = [tx EXCEPT ![r] = TxIdle]
        /\ UNCHANGED <<ledger, users, authState>>

\* Calls of _create_openai_response share nothing; they are taken one at
\* a time.
NextOpenAI ==
    \/ \E r \in Requests, max_output_tokens \in OutputTokenInputs,
          temperature \in BOOLEAN, max_output_token_retries \in RetryInputs :
           /\ Quiet
           /\ create_openai_response(r, max_output_tokens, temperature,
                                     max_output_token_retries)
    \/ \E r \in Requests, outcome \in Outcomes : responses_create(r, outcome)

SpecOpenAI == Init /\ [][NextOpenAI]_vars

\* C30: while retries remain, a response that is incomplete for
\* max_output_tokens makes the loop ask again with double the limit it
\* asked with (2400 after 1200), and the first response that is not
\* incomplete for that reason is the one returned.
RetryDoublesTheLimit ==
    \A r \in Requests :
        (/\ tx[r].pc = "openai"
         /\ tx[r].retries_left > 0
         /\ tx[r].max_output_tokens # Null)
            => /\ ~ENABLED (/\ responses_create(
                                   r, ApiResponse("incomplete",
                                                  "max_output_tokens"))
                            /\ ~(/\ tx'[r].pc = "openai"
                                 /\ tx'[r].max_output_tokens
                                        = 2 * tx[r].max_output_tokens))
               /\ \A outcome \in {o \in Outcomes : ~Raises(o)} :
                      incomplete_reason(outcome) # "max_output_tokens"
                          => ~ENABLED (/\ responses_create(r, outcome)
                                       /\ ~(/\ resp'.status = 200
                                            /\ resp'.body.response = outcome))

\* C31: an upstream authentication failure becomes 401 'OpenAI
\* authentication failed', and every other upstream answer with a 4xx
\* status is passed on with its status and its message as detail.
UpstreamClientErrorsPassedOn ==
    \A r \in Requests :
        tx[r].pc = "openai"
            => /\ ~ENABLED (/\ responses_create(
                                   r, [raises |-> "AuthenticationError"])
                            /\ resp' # HttpError("create_openai_response", 401,
                                                 "OpenAI authentication failed"))
               /\ \A e \in {"BadRequestError", "PermissionDeniedError",
                            "RateLimitError"} :
                      ~ENABLED (/\ responses_create(r, [raises |-> e])
                                /\ resp' # HttpError("create_openai_response",
                                                     UpstreamStatus(e),
                                                     UpstreamMessage(e)))

\* ------------------------------------------------------ Open Food Facts proxy

\* a body read from the upstream: whether it decodes as UTF-8, whether the
\* text is JSON, whether the JSON value is an object, and the object's
\* "status" (Null when absent) and "product" ("dict", another type, absent)
Body(decodes, parses, is_dict, status, product) ==
    [decodes |-> decodes, parses |-> parses, is_dict |-> is_dict,
     status |-> status, product |-> product]

\* what urlopen(request, timeout) and response.read() can do.  urlopen
\* raises HTTPError for an answer with an error status; it wraps every
\* OSError of the connection and of the sending of the request, a timeout
\* among them, in URLError; a timeout while the answer is read is raised
\* as it is.
UrlopenOutcomes ==
    {[raises |-> "HTTPError", code |-> c] : c \in {404, 403, 500}}
    \cup {[raises |-> "TimeoutError", code |-> 0]}
    \cup {[raises |-> "URLError(TimeoutError)", code |-> 0],
          [raises |-> "URLError(ConnectionRefusedError)", code |-> 0]}
    \cup {[raises |-> "", code |-> 200, body |-> b] :
            b \in {Body(FALSE, FALSE, FALSE, Null, "absent"),
                   Body(TRUE, FALSE, FALSE, Null, "absent"),
                   Body(TRUE, TRUE, FALSE, Null, "absent"),
                   Body(TRUE, TRUE, TRUE, 1, "dict"),
                   Body(TRUE, TRUE, TRUE, 0, "dict"),
                   Body(TRUE, TRUE, TRUE, Null, "dict"),
                   Body(TRUE, TRUE, TRUE, 1, "absent"),
                   Body(TRUE, TRUE, TRUE, 1, "str")}}

\* the barcodes a request can carry
BarcodeInputs == {"12345678", "87654321"}

ProductNotFound ==
    HttpError("load_product_payload", 404, "Product not found")

\* _load_product_payload, lines 72-104: the request to the upstream and
\* the clauses for what it raises, in their order
load_product_payload(r, barcode, outcome) ==
    /\ Free(r)
    /\ IF outcome.raises = "HTTPError"
           THEN /\ resp' = IF outcome.code = 404 THEN ProductNotFound
                           ELSE HttpError("load_product_payload", 502,
                                          "Open Food Facts request failed")
                /\ UNCHANGED tx
       ELSE IF outcome.raises = "TimeoutError"
           THEN /\ resp' = HttpError("load_product_payload", 504,
                                     "Open Food Facts request timed out")
                /\ UNCHANGED tx
       ELSE IF outcome.raises \in {"URLError(TimeoutError)",
                                   "URLError(ConnectionRefusedError)"}
           THEN /\ resp' = HttpError("load_product_payload", 502,
                                     "Cannot reach Open Food Facts API")
                /\ UNCHANGED tx
       ELSE /\ tx' = [tx EXCEPT ![r] =
                         [TxIdle EXCEPT !.pc = "product_read",
                                        !.barcode = barcode,
                                        !.response_bytes = outcome.body]]
            /\ UNCHANGED resp
    /\ UNCHANGED <<ledger, users, authState>>

\* lines 106-127: the body is decoded and parsed, and the product taken
\* from it
load_product_parse(r) ==
    LET body == tx[r].response_bytes
    IN  /\ tx[r].pc = "product_read"
        /\ resp' = IF ~body.decodes \/ ~body.parses \/ ~body.is_dict
                       THEN HttpError("load_product_payload", 502,
                                      "Open Food Facts returned invalid JSON")
                   ELSE IF body.status # 1 \/ body.product # "dict"
                       THEN ProductNotFound
                   ELSE Answer("load_product_payload", 200, Null,
                               [barcode |-> tx[r].barcode])
        /\ tx' = [tx EXCEPT ![r] = TxIdle]
        /\ UNCHANGED <<ledger, users, authState>>

NextBarcode ==
    \/ \E r \in Requests, barcode \in BarcodeInputs,
          outcome \in UrlopenOutcomes :
           load_product_payload(r, barcode, outcome)
    \/ \E r \in Requests : load_product_parse(r)

SpecBarcode == Init /\ [][NextBarcode]_vars

\* C32: every upstream timeout, one raised while connecting included, gives
\* 504; an upstream that cannot be reached gives 502; an upstream error
\* status other than 404 gives 502, and so does a body that is not JSON or
\* not a JSON object; an upstream 404, and a payload whose status is not 1
\* or that has no product object, give 404 'Product not found'.
UpstreamFailuresTold ==
    /\ \A r \in Requests : \A b \in BarcodeInputs :
       \A o \in {u \in UrlopenOutcomes : u.raises # ""} :
           ~ENABLED (/\ load_product_payload(r, b, o)
                     /\ ~(CASE o.raises \in {"TimeoutError",
                                             "URLError(TimeoutError)"}
                                   -> resp'.status = 504
                            [] o.raises = "URLError(ConnectionRefusedError)"
                                   -> resp'.status = 502
                            [] o.raises = "HTTPError"
                                   -> resp' = IF o.code = 404
                                                  THEN ProductNotFound
                                              ELSE HttpError(
                                                  "load_product_payload", 502,
                                                  "Open Food Facts request failed")))
    /\ \A r \in Requests :
           tx[r].pc = "product_read"
               => \A body \in {tx[r].response_bytes} :
                      ~ENABLED (/\ load_product_parse(r)
                                /\ ~(IF ~(/\ body.decodes /\ body.parses
                                          /\ body.is_dict)
                                         THEN resp'.status = 502
                                     ELSE IF body.status # 1
                                             \/ body.product # "dict"
                                         THEN resp' = ProductNotFound
                                     ELSE resp'.status = 200))

\* ------------------------------------------------- session frame properties

\* the sessions of user_id in table D that are active at time t
ActiveSessions(D, user_id, t) ==
    {s \in DOMAIN D : D[s].user_id = user_id /\ is_session_active(D[s], t)}

\* C33: the commit of a Refresh of session S of user U leaves S revoked,
\* adds exactly one row, an active session of U that expires a whole
\* session lifetime from now, returns a pair of tokens whose sub is U and
\* whose sid is the new row's id, and leaves the number of active sessions
\* of U as it was.
RefreshReplacesOneSession ==
    \A r \in Requests :
        req[r].pc = "refresh_flushed"
            => \A S \in {req[r].session_id} : \A U \in {req[r].user_id} :
               \A N \in {req[r].new_id} :
                   ~ENABLED (/\ refresh_commit(r)
                             /\ ~(/\ db'[S].revoked_at # Null
                                  /\ DOMAIN db' \ DOMAIN db = {N}
                                  /\ db'[N].user_id = U
                                  /\ is_session_active(db'[N], now)
                                  /\ db'[N].expires_at = refresh_expires_at(now)
                                  /\ resp' = Response("refresh", 200, Null)
                                  /\ {t.type : t \in issued' \ issued}
                                         = {"refresh", "access"}
                                  /\ \A t \in issued' \ issued :
                                         IntOf(t.sub) = U /\ SidOf(t) = N
                                  /\ Cardinality(ActiveSessions(db', U, now))
                                         = Cardinality(ActiveSessions(db, U, now))))

\* the tokens a client can send that name session s
TokensOf(s) == {i \in TokenInputs : ~IntRaises(i.sid) /\ SidOf(i) = s}

\* the rows of the sessions in S are as they were, and every token in
\* tokens is answered by Refresh and by /auth/me as it was
SessionsKept(S, tokens) ==
    /\ \A s \in S : s \in DOMAIN db' /\ db'[s] = db[s]
    /\ \A t \in tokens :
           /\ RefreshAccepts(t)' = RefreshAccepts(t)
           /\ CurrentUser(t)' = CurrentUser(t)

\* C34: no step of a Login changes the row of an existing session, and no
\* step of a Refresh or of a Logout changes the row of a session other than
\* the one its token names; every token of the sessions left alone is
\* answered by Refresh and by /auth/me as it was before the step.
OnlyTheTargetedSession ==
    \A all \in {DOMAIN db} : \A any \in {UNION {TokensOf(s) : s \in DOMAIN db}} :
        /\ \A r \in Requests :
               /\ \A email \in EmailInputs, password \in PasswordInputs :
                      ~ENABLED (/\ login_user(r, email, password)
                                /\ ~SessionsKept(all, any))
               /\ \A token \in TokenInputs :
                      /\ ~ENABLED (/\ refresh_tokens(r, token)
                                   /\ ~SessionsKept(all, any))
                      /\ ~ENABLED (/\ logout(r, token)
                                   /\ ~SessionsKept(all, any))
        /\ \A r \in Requests :
           \A others \in {all \ {req[r].session_id}} :
           \A their \in {UNION {TokensOf(s) : s \in others}} :
               /\ ~ENABLED (/\ issue_tokens_commit(r) /\ ~SessionsKept(all, any))
               /\ ~ENABLED (/\ refresh_flush(r) /\ ~SessionsKept(all, any))
               /\ ~ENABLED (/\ rollback(r) /\ ~SessionsKept(all, any))
               /\ ~ENABLED (/\ refresh_commit(r) /\ ~SessionsKept(others, their))
               /\ ~ENABLED (/\ logout_commit(r) /\ ~SessionsKept(others, their))

\* C34 witness: a user holds two sessions; a Logout of one has just
\* committed, and the refresh token and the access token of the other are
\* still accepted.
OtherSessionStillWorks ==
    /\ resp = Response("logout", 200, Null)
    /\ \E s1, s2 \in DOMAIN db :
           /\ s1 # s2
           /\ db[s1].user_id = db[s2].user_id
           /\ db[s1].revoked_at # Null
           /\ \E t \in loggedOut : SidOf(t) = s1
           /\ \E t \in IssuedRefresh : SidOf(t) = s2 /\ RefreshAccepts(t)
           /\ \E a \in IssuedAccess : SidOf(a) = s2 /\ CurrentUser(a) # Null

\* C35: a Logout whose token fails the decode, the session, the ownership
\* or the hash check, or whose session is already revoked, ends at once
\* with its usual answer and leaves every stored row as it was - the
\* revoked_at of the session it names included - and nothing to commit.
FailedLogoutChangesNothing ==
    \A r \in Requests : \A token \in TokenInputs :
        (\/ ~LogoutAccepts(token)
         \/ db[SidOf(token)].revoked_at # Null)
            => ~ENABLED (/\ logout(r, token)
                         /\ ~(/\ db' = db
                              /\ users' = users
                              /\ issued' = issued
                              /\ req' = req
                              /\ resp' = Response("logout", 200, Null)))

\* C35 witness: a Logout has answered for a token whose session a Refresh
\* had revoked at an earlier time, and that time is still the session's
\* revoked_at; a token naming an active session with another hash is at
\* hand, and Logout does not accept it.
RevokedEarlierAndLoggedOut ==
    /\ resp = Response("logout", 200, Null)
    /\ \E t \in loggedOut :
           /\ Rotated(t)
           /\ db[SidOf(t)].revoked_at < now
    /\ \E t \in IssuedRefresh :
           /\ db[SidOf(t)].revoked_at = Null
           /\ Reissued(t) \in TokenInputs
           /\ ~LogoutAccepts(Reissued(t))

\* ------------------------------------------------- ledger frame properties

\* the request timestamp in UTC with the zone dropped; a zone-less one as
\* it is
UtcOf(time) == IF time.zoned THEN time.at - time.offset ELSE time.at

\* C36: every stored meal lies under a bucket of its own user whose day is
\* the calendar date of the meal's time; a logMeal keeps, and then stores,
\* the request timestamp converted to UTC with the zone dropped (a
\* zone-less one as it is) and looks for the bucket of that time's date.
MealsUnderTheirUtcDay ==
    /\ \A m \in DOMAIN meals :
           /\ meals[m].statistics_day_id \in DOMAIN days
           /\ days[meals[m].statistics_day_id].user_id = meals[m].user_id
           /\ days[meals[m].statistics_day_id].day = DateOf(meals[m].time)
    /\ \A r \in Requests, u \in DOMAIN users, time \in StatsTimes :
           ~ENABLED (/\ create_meal(r, u, <<"a">>, time)
                     /\ ~(/\ tx'[r].time = UtcOf(time)
                          /\ tx'[r].day = DateOf(UtcOf(time))
                          /\ tx'[r].day_id = BucketOf(u, DateOf(UtcOf(time)))))
    /\ \A r \in Requests : \A u \in {tx[r].user_id} : \A t \in {tx[r].time} :
           ~ENABLED (/\ create_meal_commit(r)
                     /\ ~(/\ meals'[meal_seq + 1].time = t
                          /\ meals'[meal_seq + 1].user_id = u
                          /\ BucketOf(u, DateOf(t))'
                                 = meals'[meal_seq + 1].statistics_day_id))

\* C36 witness: a meal sent at ten past midnight of day 2 in a zone one
\* hour ahead of UTC is stored with its UTC time, fifty minutes before that
\* midnight, under the user's bucket of day 1.
ZonedMealUnderUtcDay ==
    \E m \in DOMAIN meals :
        /\ meals[m].time = 2 * MinutesPerDay + 10 - 60
        /\ days[meals[m].statistics_day_id].day = 1
        /\ days[meals[m].statistics_day_id].user_id = meals[m].user_id
        /\ resp = Response("create_meal", 201, meals[m].user_id)

\* ------------------------------------------------- deletes, step by step

\* the meals under bucket day_id
MealsUnder(day_id) ==
    {m \in DOMAIN meals : meals[m].statistics_day_id = day_id}

\* a DELETE of one of the rows in meal_ids waits while another transaction
\* holds an uncommitted DELETE of that row
MealDeleteWaits(r, meal_ids) ==
    \E o \in Requests \ {r} :
        tx[o].pc = "meal_delete_checked" /\ tx[o].meal_id \in meal_ids

\* delete_daily_meal, lines 233-255: the bucket and the meal are looked up
delete_daily_meal_select(r, user_id, day, meal_id) ==
    LET statistics_day == BucketOf(user_id, day)
    IN  /\ Free(r)
        /\ IF statistics_day = Null
               THEN /\ resp' = HttpError("delete_daily_meal", 404,
                                         "Statistics day not found")
                    /\ UNCHANGED tx
           ELSE IF \/ meal_id \notin DOMAIN meals
                   \/ meals[meal_id].user_id # user_id
                   \/ meals[meal_id].statistics_day_id # statistics_day
               THEN /\ resp' = HttpError("delete_daily_meal", 404,
                                         "Meal not found in this day")
                    /\ UNCHANGED tx
               ELSE /\ tx' = [tx EXCEPT ![r] =
                                 [TxIdle EXCEPT !.pc = "meal_delete_selected",
                                                !.user_id = user_id,
                                                !.day = day,
                                                !.day_id = statistics_day,
                                                !.meal_id = meal_id]]
                    /\ UNCHANGED resp
        /\ UNCHANGED <<days, meals, day_seq, meal_seq, users, authState>>

\* lines 257-263: session.delete(meal); the query for the remaining meals
\* flushes the DELETE first, inside the open transaction, and then reads
\* the committed rows of the bucket other than the meal
delete_daily_meal_remaining(r) ==
    /\ tx[r].pc = "meal_delete_selected"
    /\ ~MealDeleteWaits(r, {tx[r].meal_id})
    /\ tx' = [tx EXCEPT ![r].pc = "meal_delete_checked",
                        ![r].has_remaining =
                            \E m \in DOMAIN meals :
                                /\ meals[m].user_id = tx[r].user_id
                                /\ meals[m].statistics_day_id = tx[r].day_id
                                /\ m # tx[r].meal_id]
    /\ UNCHANGED <<resp, days, meals, day_seq, meal_seq, users, authState>>

\* lines 264-266: without a remaining meal the bucket is deleted too, and
\* the foreign key of meal_entries.statistics_day_id (ON DELETE CASCADE)
\* deletes every meal under it; then the commit
delete_daily_meal_commit(r) ==
    /\ tx[r].pc = "meal_delete_checked"
    /\ tx[r].has_remaining \/ ~MealDeleteWaits(r, MealsUnder(tx[r].day_id))
    /\ meals' = WithoutMeals({tx[r].meal_id} \cup
                             IF tx[r].has_remaining THEN {}
                             ELSE MealsUnder(tx[r].day_id))
    /\ days' = IF tx[r].has_remaining THEN days ELSE WithoutDay(tx[r].day_id)
    /\ resp' = Response("delete_daily_meal", 204, tx[r].user_id)
    /\ tx' = [tx EXCEPT ![r] = TxIdle]
    /\ UNCHANGED <<day_seq, meal_seq, users, authState>>

\* delete_day, lines 203-219: the bucket and its meals are looked up
delete_day_select(r, user_id, day) ==
    LET statistics_day == BucketOf(user_id, day)
    IN  /\ Free(r)
        /\ IF statistics_day = Null
               THEN /\ resp' = HttpError("delete_day", 404,
                                         "Statistics day not found")
                    /\ UNCHANGED tx
               ELSE /\ tx' = [tx EXCEPT ![r] =
                                 [TxIdle EXCEPT
                                     !.pc = "day_delete_selected",
                                     !.user_id = user_id,
                                     !.day = day,
                                     !.day_id = statistics_day,
                                     !.meal_ids =
                                         {m \in MealsUnder(statistics_day) :
                                             meals[m].user_id = user_id}]]
                    /\ UNCHANGED resp
        /\ UNCHANGED <<days, meals, day_seq, meal_seq, users, authState>>

\* lines 220-223: the meals that were read and the bucket are deleted, the
\* foreign key deletes every other meal under the bucket, and the
\* transaction is committed
delete_day_commit(r) ==
    /\ tx[r].pc = "day_delete_selected"
    /\ ~MealDeleteWaits(r, tx[r].meal_ids \cup MealsUnder(tx[r].day_id))
    /\ meals' = WithoutMeals(tx[r].meal_ids \cup MealsUnder(tx[r].day_id))
    /\ days' = WithoutDay(tx[r].day_id)
    /\ resp' = Response("delete_day", 204, tx[r].user_id)
    /\ tx' = [tx EXCEPT ![r] = TxIdle]
    /\ UNCHANGED <<day_seq, meal_seq, users, authState>>

\* the users whose requests run concurrently
ConcurrentUsers == {1}

\* Meals are logged and deleted concurrently.
NextConcurrent ==
    \/ \E r \in Requests, user_id \in ConcurrentUsers, time \in LedgerTimes :
           create_meal(r, user_id, <<"a">>, time)
    \/ \E r \in Requests : create_meal_flush(r) /\ UNCHANGED shadow
    \/ \E r \in Requests : create_meal_commit(r) /\ UNCHANGED shadow
    \/ \E r \in Requests, user_id \in ConcurrentUsers, day \in DayInputs,
          meal_id \in MealIdInputs :
           delete_daily_meal_select(r, user_id, day, meal_id) /\ UNCHANGED shadow
    \/ \E r \in Requests : delete_daily_meal_remaining(r) /\ UNCHANGED shadow
    \/ \E r \in Requests : delete_daily_meal_commit(r) /\ UNCHANGED shadow
    \/ \E r \in Requests, user_id \in ConcurrentUsers, day \in DayInputs :
           delete_day_select(r, user_id, day) /\ UNCHANGED shadow
    \/ \E r \in Requests : delete_day_commit(r) /\ UNCHANGED shadow

SpecConcurrent == Init /\ [][NextConcurrent]_vars

\* C37: every stored meal references a bucket that exists; a logMeal that
\* found a bucket stores no meal under it once a delete has removed it; and
\* no meal leaves the ledger but by a deleteDay of its day or by the
\* deleteMeal that names it.
LoggedMealNeverLost ==
    /\ \A m \in DOMAIN meals : meals[m].statistics_day_id \in DOMAIN days
    /\ \A r \in Requests :
           ~ENABLED (/\ create_meal_commit(r)
                     /\ resp'.status = 201
                     /\ meals'[meal_seq + 1].statistics_day_id \notin DOMAIN days')
    /\ \A r \in Requests : \A named \in {tx[r].meal_id} :
           ~ENABLED (/\ delete_daily_meal_commit(r)
                     /\ ~(DOMAIN meals \ DOMAIN meals' \subseteq {named}))

\* C38: once no request is in flight, no bucket is left without a meal.
NoBucketLeftEmpty ==
    Quiet => \A d \in DOMAIN days : MealsUnder(d) # {}

\* ------------------------------------------------ OpenAI loop properties

\* what a turn of the loop can still spend on going round again
TurnsLeft(t) == t.retries_left + (IF t.temperature THEN 1 ELSE 0)

TemperatureUnsupported ==
    "BadRequestError: Unsupported parameter: 'temperature'"

\* C39: a call of _create_openai_response that is still in its loop has
\* made no more than max_output_token_retries + 1 upstream calls, so it
\* makes no more than max_output_token_retries + 2 (a negative number of
\* retries counts as none); at most one call was repeated with the limit it
\* had, every other call has a strictly larger limit of at most 4096, and
\* the limit was raised at most max_output_token_retries times; every turn
\* of the loop ends the call or leaves fewer turns; and every exception
\* other than the unsupported temperature of a call that sent one ends the
\* call with an error.
LoopEndsWithinItsBudget ==
    \A r \in Requests :
        tx[r].pc = "openai"
            => \A t \in {tx[r]} :
               \A calls \in {Append(t.calls, t.max_output_tokens)} :
               \A turns \in {1..(Len(calls) - 1)} :
                   /\ Len(calls) <= Max(0, t.max_output_token_retries) + 2
                   /\ Cardinality({i \in turns : calls[i + 1] = calls[i]}) <= 1
                   /\ Cardinality({i \in turns : calls[i + 1] # calls[i]})
                          <= Max(0, t.max_output_token_retries)
                   /\ \A i \in turns :
                          \/ calls[i + 1] = calls[i]
                          \/ /\ calls[i + 1] > calls[i]
                             /\ calls[i + 1] <= OUTPUT_TOKENS_CEILING
                   /\ \A outcome \in Outcomes :
                          ~ENABLED (/\ responses_create(r, outcome)
                                    /\ tx'[r].pc # "idle"
                                    /\ ~(TurnsLeft(tx'[r]) < TurnsLeft(t)))
                   /\ \A outcome \in {o \in Outcomes : Raises(o)} :
                          (outcome.raises # TemperatureUnsupported \/ ~t.temperature)
                              => ~ENABLED (/\ responses_create(r, outcome)
                                           /\ ~(/\ tx'[r].pc = "idle"
                                                /\ resp'.status >= 400))

\* C39 witness: a call allowed two retries has answered after four
\* upstream calls: the second repeated the first without the temperature,
\* and the third and the fourth each had a larger limit.
FourCallsThenAnswer ==
    /\ resp.op = "create_openai_response"
    /\ resp.status = 200
    /\ Len(resp.body.calls) = 4
    /\ resp.body.calls[2] = resp.body.calls[1]
    /\ resp.body.calls[3] > resp.body.calls[2]
    /\ resp.body.calls[4] > resp.body.calls[3]

====
